---- MODULE Spec2Model ----
(***************************************************************************)
(* FeishuWikiPusher (src/services/feishu_wiki.py): the push pipeline       *)
(* push_note, the token cache _get_tenant_access_token, the batch append   *)
(* _append_blocks, the media binding _bind_images and the block builder    *)
(* _build_blocks_from_markdown with its planner, as state machines.        *)
(* Every remote call is a step whose response is chosen by the             *)
(* environment; a Python exception that leaves push_note is pc = "raised". *)
(***************************************************************************)
EXTENDS Integers, Sequences, FiniteSets, TLC

\* ---------------------------------------------------------------- bounds
MaxBlocks == 65
MaxTasks == 2
MaxAppended == 2
MaxTime == 210
TickStep == 30
MaxInvocations == 2
MaxLines == 4
MaxShots == 3
MaxSegments == 3

\* ------------------------------------------------------- program constants
chunk_size == 30
SafetyMargin == 120
MinCacheSeconds == 60
DefaultExpire == 7200
ImageBlockType == 27
PageBlockType == 1

domain == "feishu"

\* ------------------------------------------------------------ value sets
TokenValues == {"tokA", "tokB"}
ExpireValues == {0, 90, 180, 300}
RealIds == {"blkA", "blkB"}
DocIds == {"doc1"}
NodeTokens == {"node1"}
TaskTypes == {"url", "local"}

Max(a, b) == IF a >= b THEN a ELSE b
Min(a, b) == IF a <= b THEN a ELSE b

VARIABLES
    _token, _token_expire_at,       \* self._token, self._token_expire_at
    now,                            \* time.time()
    stated,                         \* what the server stated for the cached token
    token_obs,                      \* the last _get_tenant_access_token call, observed
    pc,                             \* position of the push_note invocation
    config,                         \* self.app_id, self.app_secret, self.space_id
    note_text,                      \* the argument note_text, as its lines
    mindmap_mermaid,                \* the argument mindmap_mermaid
    token, doc_id, node_token, root_block_id, blocks, image_tasks,
    append_i, append_ok, relations, appended_image_block_ids,
    task_idx, used_block_ids, unresolved, fallback_block_ids, fb_idx,
    ok_count, fail_count,
    task_src,                       \* per task, the state of its source when it was bound
    bind_wait,                      \* the request of the task that is not yet answered
    mindmap_result, result,
    calls,                          \* the remote calls of this invocation, in order
    pushes,                         \* the push_note invocations that run interleaved
    video_url, screenshot_paths,    \* the other arguments of _build_blocks_from_markdown
    existing_files,                 \* the paths p with p.exists() and p.is_file()
    line_i,                         \* the lines the loop of the builder has read
    in_code_block, code_lang, code_lines, in_formula_block, formula_lines,
    screenshot_global_idx, screenshot_insert_map,
    inline_text, normalized, elements,  \* _parse_inline_elements: text, normalized, elements
    title_prefix, title,            \* self.title_prefix and the title _build_title returns
    uuid_base,                      \* the random part of the temporary ids of a builder run
    runs, earlier_blocks,           \* the builder runs entered, the blocks of the run before
    earlier_files,                  \* the files that existed at the run before
    token_waits                     \* the token requests sent and not yet answered

cache_vars == <<_token, _token_expire_at, stated, token_obs>>
input_vars == <<config, note_text, mindmap_mermaid>>
push_vars == <<token, doc_id, node_token, root_block_id, blocks, image_tasks>>
append_vars == <<append_i, append_ok, relations, appended_image_block_ids>>
bind_vars == <<task_idx, used_block_ids, unresolved, fallback_block_ids, fb_idx,
               ok_count, fail_count, task_src, bind_wait>>
build_input_vars == <<video_url, screenshot_paths, existing_files>>
build_local_vars == <<line_i, in_code_block, code_lang, code_lines, in_formula_block,
                      formula_lines, screenshot_global_idx, screenshot_insert_map>>
inline_vars == <<inline_text, normalized, elements>>
title_vars == <<title_prefix, title>>
rerun_vars == <<uuid_base, runs, earlier_blocks, earlier_files>>
side_vars == <<pushes, build_input_vars, build_local_vars, inline_vars, title_vars,
               rerun_vars, token_waits>>
vars == <<cache_vars, now, pc, input_vars, push_vars, append_vars, bind_vars,
          mindmap_result, result, calls, side_vars>>

\* One entry of the call log.
\* (out is the kind of response; ret is the datum the response carries: the
\* token, the document id, the root block id; blk is the block the request
\* names and, for the document creation, the node token of the response.)
Call(op, tok, idx, chunk, task, blk, out, ret) ==
    [op |-> op, tok |-> tok, idx |-> idx, chunk |-> chunk, task |-> task,
     blk |-> blk, out |-> out, ret |-> ret]

NoRelations == [t \in 1..MaxTasks |-> ""]
NoSources == [t \in 1..MaxTasks |-> ""]
NoMindmap == [attempted |-> FALSE, success |-> FALSE, skipped |-> FALSE, reason |-> ""]
NoResult == [success |-> FALSE, error |-> "", has_doc |-> FALSE, doc_id |-> "",
             node_token |-> "", doc_url |-> <<>>, images_ok |-> 0, images_fail |-> 0,
             image_tasks |-> 0, mindmap |-> NoMindmap]
NoObs == [called |-> FALSE, at |-> 0, requested |-> FALSE, ret |-> "", raised |-> FALSE,
          had_token |-> FALSE]
NoStated == [at |-> 0, expire |-> 0]

\* ---------------------------------------------------------------- strings
\* A string is the sequence of its characters; a text is the sequence of
\* its lines (str.splitlines()).
Whitespace == {" ", "\t"}

RECURSIVE lstrip(_)
lstrip(s) == IF s # <<>> /\ Head(s) \in Whitespace THEN lstrip(Tail(s)) ELSE s
RECURSIVE rstrip(_)
rstrip(s) ==
    IF s # <<>> /\ s[Len(s)] \in Whitespace THEN rstrip(SubSeq(s, 1, Len(s) - 1)) ELSE s
\* str.strip()
strip(s) == rstrip(lstrip(s))

\* A test of emptiness only: not note_text.
is_empty_text(lines) == lines = <<>>

\* not note_text or not note_text.strip(): a line break is whitespace too, so
\* a text is blank when every line of it is.
is_blank_text(lines) == \A k \in 1..Len(lines) : strip(lines[k]) = <<>>

\* The constructor: (app_id or "").strip() and so on.
RawConfigValues == {<<>>, <<" ">>, <<"x">>}
__init__(app_id, app_secret, space_id) ==
    [app_id |-> strip(app_id), app_secret |-> strip(app_secret),
     space_id |-> strip(space_id)]
ReadyConfig == __init__(<<"x">>, <<"x">>, <<"x">>)

\* A readiness test that forgets the space id.
is_config_ready_without_space == config.app_id # <<>> /\ config.app_secret # <<>>

\* is_config_ready: bool(self.app_id and self.app_secret and self.space_id)
is_config_ready ==
    config.app_id # <<>> /\ config.app_secret # <<>> /\ config.space_id # <<>>

\* The notes and diagram sources the pipeline is run with.
PlainNote == << <<"a">> >>
PushNotes == {<<>>, << <<" ">> >>, << <<>>, <<"\t", " ">> >>, PlainNote}
Mermaids == {<<>>, <<" ">>, <<"m">>}

\* if not note_text or not note_text.strip()
note_blank == is_blank_text(note_text)
\* mermaid = (mindmap_mermaid or "").strip(); if not mermaid
mindmap_blank == strip(mindmap_mermaid) = <<>>

\* An invocation of push_note that has not started: its position, its local
\* token, the clock it read in _get_tenant_access_token, and the token
\* values its requests carried.
Invocations == 1..MaxInvocations
NoPush == [pc |-> "idle", token |-> "", t0 |-> 0, sent |-> <<>>, cached |-> ""]
conc_idle == pushes = [p \in Invocations |-> NoPush]

\* The builder has not been entered.
build_idle ==
    /\ video_url = <<>> /\ screenshot_paths = <<>> /\ existing_files = {}
    /\ line_i = 0 /\ in_code_block = FALSE /\ code_lang = <<>> /\ code_lines = <<>>
    /\ in_formula_block = FALSE /\ formula_lines = <<>>
    /\ screenshot_global_idx = 0 /\ screenshot_insert_map = <<>>

\* The inline parser and the title builder have not been entered.
inline_idle == inline_text = <<>> /\ normalized = <<>> /\ elements = <<>>
title_idle == title_prefix = <<>> /\ title = <<>>

rerun_idle == uuid_base = 0 /\ runs = 0 /\ earlier_blocks = <<>> /\ earlier_files = {}

\* No token request is outstanding.
token_idle == token_waits = <<>>

side_idle ==
    conc_idle /\ build_idle /\ inline_idle /\ title_idle /\ rerun_idle /\ token_idle

\* ------------------------------------------------------------ token cache

\* The responses of the token endpoint.
TokenResponses(tokens, expires) ==
    {[kind |-> k, token |-> "", expire_kind |-> "num", expire |-> 0] :
        k \in {"exc", "http", "malformed", "nonzero"}}
    \cup {[kind |-> "ok", token |-> t, expire_kind |-> "num", expire |-> e] :
            t \in tokens \cup {""}, e \in expires}
    \cup {[kind |-> "ok", token |-> t, expire_kind |-> ek, expire |-> DefaultExpire] :
            t \in tokens \cup {""}, ek \in {"missing", "bad"}}

\* if self._token and now < self._token_expire_at
token_cached(nowv) == _token # "" /\ nowv < _token_expire_at

\* A cache that trusts the stated lifetime entirely: no margin, no floor.
token_expire_at_without_margin(nowv, expire) == nowv + expire

\* now + max(60, expire - 120)
token_expire_at(nowv, expire) == nowv + Max(MinCacheSeconds, expire - SafetyMargin)

\* _get_tenant_access_token after its request was answered (lines 203-226):
\* what is returned (ret, "" for None), whether an exception leaves the
\* function, and the cache it leaves; nowv is the clock read at line 190.
token_after_request(nowv, resp) ==
    LET keep(ret, raised, requested) ==
            [ret |-> ret, raised |-> raised, requested |-> requested,
             new_token |-> _token, new_expire_at |-> _token_expire_at,
             new_stated |-> stated]
    IN  IF resp.kind \in {"exc", "http"} THEN keep("", FALSE, TRUE)
        ELSE IF resp.kind = "malformed" THEN keep("", TRUE, TRUE)
        ELSE IF resp.kind = "nonzero" THEN keep("", FALSE, TRUE)
        ELSE IF resp.expire_kind = "bad" THEN keep("", TRUE, TRUE)
        ELSE IF resp.token = "" THEN keep("", FALSE, TRUE)
        ELSE [ret |-> resp.token, raised |-> FALSE, requested |-> TRUE,
              new_token |-> resp.token,
              new_expire_at |-> token_expire_at(nowv, resp.expire),
              new_stated |-> [at |-> nowv, expire |-> resp.expire]]

\* A token request that is outstanding: who sent it (the push_note the
\* pipeline follows, or another call on the same instance) and the clock its
\* call read at line 190.
Wait(caller, t0) == [caller |-> caller, t0 |-> t0]
waits_of(caller) == {i \in 1..Len(token_waits) : token_waits[i].caller = caller}
waits_without(i) == SubSeq(token_waits, 1, i - 1) \o SubSeq(token_waits, i + 1, Len(token_waits))

\* _get_tenant_access_token up to its await (lines 190-202): the clock is
\* read and the cache tested; the cached token is returned at once, else the
\* request is sent and the call is suspended until the answer. The cache is
\* not written.
token_call_begin(caller) ==
    /\ token_waits' = IF token_cached(now) THEN token_waits
                      ELSE Append(token_waits, Wait(caller, now))
    /\ UNCHANGED <<_token, _token_expire_at, stated>>

\* The call that starts now, observed: whether it sends a request and, if
\* not, the token it returns.
observe_begin ==
    token_obs' = [called |-> TRUE, at |-> now, requested |-> ~token_cached(now),
                  ret |-> IF token_cached(now) THEN _token ELSE "",
                  raised |-> FALSE, had_token |-> _token # ""]

\* _get_tenant_access_token from the answer to its i-th outstanding request
\* on (lines 203-226): the cache is written with the clock the call read
\* before the request, whatever other calls did in between.
token_call_end(i, resp) ==
    LET r == token_after_request(token_waits[i].t0, resp)
    IN  /\ _token' = r.new_token
        /\ _token_expire_at' = r.new_expire_at
        /\ stated' = r.new_stated
        /\ token_waits' = waits_without(i)

\* The call whose i-th outstanding request is answered, observed with what
\* it returns.
observe_end(i, resp) ==
    LET r == token_after_request(token_waits[i].t0, resp)
    IN  token_obs' = [called |-> TRUE, at |-> token_waits[i].t0, requested |-> TRUE,
                      ret |-> r.ret, raised |-> r.raised, had_token |-> _token # ""]

idle_push ==
    /\ token = "" /\ doc_id = "" /\ node_token = "" /\ root_block_id = ""
    /\ blocks = <<>> /\ image_tasks = <<>>
    /\ append_i = 0 /\ append_ok = "pending" /\ relations = NoRelations
    /\ appended_image_block_ids = <<>>
    /\ task_idx = 0 /\ used_block_ids = {} /\ unresolved = <<>>
    /\ fallback_block_ids = <<>> /\ fb_idx = 0 /\ ok_count = 0 /\ fail_count = 0
    /\ task_src = NoSources /\ bind_wait = ""
    /\ mindmap_result = NoMindmap /\ result = NoResult /\ calls = <<>>

\* The locals of a new invocation.
reset_push ==
    /\ token' = "" /\ doc_id' = "" /\ node_token' = "" /\ root_block_id' = ""
    /\ blocks' = <<>> /\ image_tasks' = <<>>
    /\ append_i' = 0 /\ append_ok' = "pending" /\ relations' = NoRelations
    /\ appended_image_block_ids' = <<>>
    /\ task_idx' = 0 /\ used_block_ids' = {} /\ unresolved' = <<>>
    /\ fallback_block_ids' = <<>> /\ fb_idx' = 0 /\ ok_count' = 0 /\ fail_count' = 0
    /\ task_src' = NoSources /\ bind_wait' = ""
    /\ mindmap_result' = NoMindmap /\ result' = NoResult /\ calls' = <<>>

\* After __init__: no token, expiry 0.
fresh_cache ==
    /\ _token = "" /\ _token_expire_at = 0
    /\ stated = NoStated /\ token_obs = NoObs

\* --- the token cache alone: calls of _get_tenant_access_token over time ---
InitToken ==
    /\ fresh_cache /\ now = 0 /\ pc = "idle"
    /\ config = ReadyConfig /\ note_text = PlainNote /\ mindmap_mermaid = <<>>
    /\ idle_push /\ side_idle

Tick ==
    /\ now + TickStep <= MaxTime
    /\ now' = now + TickStep
    /\ UNCHANGED <<cache_vars, pc, input_vars, side_vars, push_vars, append_vars, bind_vars,
                   mindmap_result, result, calls>>

\* The frame of a step of the token cache on its own.
token_frame ==
    UNCHANGED <<now, pc, input_vars, pushes, build_input_vars, build_local_vars,
                inline_vars, title_vars, rerun_vars, push_vars, append_vars, bind_vars,
                mindmap_result, result, calls>>

\* A call of _get_tenant_access_token starts, while fewer than
\* MaxInvocations calls wait for their answers.
TokenCallBegin ==
    /\ token_cached(now) \/ Len(token_waits) < MaxInvocations
    /\ token_call_begin("call")
    /\ observe_begin
    /\ token_frame

\* The request of one of the waiting calls is answered.
TokenCallEnd ==
    /\ \E i \in 1..Len(token_waits) :
          \E resp \in TokenResponses(TokenValues, ExpireValues) :
              token_call_end(i, resp) /\ observe_end(i, resp)
    /\ token_frame

NextToken == Tick \/ TokenCallBegin \/ TokenCallEnd

SpecToken == InitToken /\ [][NextToken]_vars

\* ------------------------------------------------------------- push_note

\* _build_doc_url: "" (the empty sequence) without a node token.
_build_doc_url(nt) ==
    IF nt = "" THEN <<>>
    ELSE IF domain = "lark" THEN <<"https://", domain, ".com/wiki/", nt>>
    ELSE <<"https://", domain, ".cn/wiki/", nt>>

\* A failure that does not name the step that failed.
fail_result_unnamed(error) == NoResult

\* The detail map of a failure before a document exists.
fail_result(error) == [NoResult EXCEPT !.error = error]

\* A failure after creation that forgets the document it created.
fail_result_doc_without_ids(error, did, nt) == [NoResult EXCEPT !.error = error]

\* The detail map of a failure after the document was created.
fail_result_doc(error, did, nt) ==
    [NoResult EXCEPT !.error = error, !.has_doc = TRUE, !.doc_id = did,
                     !.node_token = nt, !.doc_url = _build_doc_url(nt)]

\* push_note up to its first await: the two checks that need no network.
push_note ==
    /\ pc = "idle"
    /\ IF ~is_config_ready
       THEN /\ result' = fail_result("config_incomplete")
            /\ pc' = "returned"
       ELSE IF note_blank
       THEN /\ result' = fail_result("empty_note")
            /\ pc' = "returned"
       ELSE /\ pc' = "token"
            /\ UNCHANGED result
    /\ UNCHANGED <<cache_vars, now, input_vars, side_vars, push_vars, append_vars, bind_vars,
                   mindmap_result, calls>>

\* The frame of a token step inside the pipeline.
push_token_frame ==
    UNCHANGED <<now, input_vars, pushes, build_input_vars, build_local_vars, inline_vars,
                title_vars, rerun_vars, doc_id, node_token, root_block_id, blocks,
                image_tasks, append_vars, bind_vars, mindmap_result>>

\* token = await self._get_tenant_access_token(), up to the await of the
\* request: with a token cached push_note goes on with it at once, else its
\* request is sent and push_note is suspended.
push_token_begin ==
    /\ pc = "token"
    /\ token_call_begin("push")
    /\ observe_begin
    /\ IF token_cached(now)
       THEN /\ token' = _token
            /\ pc' = "create_doc"
       ELSE /\ pc' = "token_wait"
            /\ UNCHANGED token
    /\ UNCHANGED <<result, calls>>
    /\ push_token_frame

\* The token request of push_note is answered; if not token: return ...
push_token_end(resp) ==
    /\ pc = "token_wait"
    /\ \E i \in waits_of("push") :
          LET r == token_after_request(token_waits[i].t0, resp)
          IN  /\ token_call_end(i, resp)
              /\ observe_end(i, resp)
              /\ calls' = Append(calls, Call("token", "", 0, <<>>, 0, "",
                                            IF resp.kind = "ok" /\ resp.expire_kind = "bad"
                                            THEN "malformed" ELSE resp.kind,
                                            IF resp.kind = "ok" THEN resp.token ELSE ""))
              /\ IF r.raised
                 THEN /\ pc' = "raised"
                      /\ UNCHANGED <<token, result>>
                 ELSE IF r.ret = ""
                 THEN /\ result' = fail_result("token_failed")
                      /\ pc' = "returned"
                      /\ UNCHANGED token
                 ELSE /\ token' = r.ret
                      /\ pc' = "create_doc"
                      /\ UNCHANGED result
    /\ push_token_frame

\* The answers to the token request of another push_note: a failure, or
\* either token.
OtherTokenResponses ==
    {r \in TokenResponses(TokenValues, {DefaultExpire}) :
        r.kind = "exc" \/ (r.kind = "ok" /\ r.expire_kind = "num" /\ r.token # "")}

\* The frame of a token step of another push_note on the same instance.
other_token_frame ==
    UNCHANGED <<now, pc, input_vars, pushes, build_input_vars, build_local_vars,
                inline_vars, title_vars, rerun_vars, push_vars, append_vars, bind_vars,
                mindmap_result, result, calls>>

\* Another push_note on the same instance reaches its token step while this
\* one is under way (there is no lock: main.py 231-270), one such call at a
\* time; token_obs keeps the call of the push_note the pipeline follows.
other_token_begin ==
    /\ ~token_cached(now)
    /\ waits_of("other") = {}
    /\ token_call_begin("other")
    /\ UNCHANGED token_obs
    /\ other_token_frame

\* The token request of the other push_note is answered.
other_token_end(resp) ==
    /\ \E i \in waits_of("other") : token_call_end(i, resp)
    /\ UNCHANGED token_obs
    /\ other_token_frame

\* The responses of the node-creation endpoint.
CreateDocResponses ==
    {[kind |-> k, obj_token |-> "", node_token |-> ""] :
        k \in {"exc", "nonzero", "malformed"}}
    \cup {[kind |-> "ok", obj_token |-> d, node_token |-> n] :
            d \in DocIds \cup {""}, n \in NodeTokens \cup {""}}

\* _create_wiki_doc: (obj_token, node_token), or (None, None), or an exception.
_create_wiki_doc(resp) ==
    IF resp.kind \in {"exc", "nonzero"}
    THEN [doc_id |-> "", node_token |-> "", raised |-> FALSE]
    ELSE IF resp.kind = "malformed"
    THEN [doc_id |-> "", node_token |-> "", raised |-> TRUE]
    ELSE [doc_id |-> resp.obj_token, node_token |-> resp.node_token, raised |-> FALSE]

\* doc_id, node_token = await self._create_wiki_doc(token, title); if not doc_id: ...
push_create_doc(resp) ==
    LET r == _create_wiki_doc(resp)
    IN  /\ pc = "create_doc"
        /\ calls' = Append(calls, Call("create_doc", token, 0, <<>>, 0,
                                       resp.node_token, resp.kind, resp.obj_token))
        /\ IF r.raised
           THEN /\ pc' = "raised"
                /\ UNCHANGED <<doc_id, node_token, result>>
           ELSE IF r.doc_id = ""
           THEN /\ result' = fail_result("create_doc_failed")
                /\ pc' = "returned"
                /\ UNCHANGED <<doc_id, node_token>>
           ELSE /\ doc_id' = r.doc_id
                /\ node_token' = r.node_token
                /\ pc' = "root"
                /\ UNCHANGED result
        /\ UNCHANGED <<cache_vars, now, input_vars, side_vars, token, root_block_id, blocks,
                       image_tasks, append_vars, bind_vars, mindmap_result>>

\* The responses of the block-listing endpoint: a kind, and the items listed.
RootItems == {[block_type |-> bt, block_id |-> b] : bt \in {PageBlockType, 2},
                                                     b \in {"", "root1"}}
RootItemLists == {<<>>} \cup {<<a>> : a \in RootItems}
                 \cup {<<a, b>> : a \in RootItems, b \in RootItems}
RootResponses ==
    {[kind |-> k, items |-> <<>>] : k \in {"exc", "nonzero", "malformed"}}
    \cup {[kind |-> "ok", items |-> its] : its \in RootItemLists}

\* _get_document_root_block_id: the first item of block_type 1, else the
\* first item; None ("") on failure or without items.
_get_document_root_block_id(resp) ==
    IF resp.kind \in {"exc", "nonzero"} THEN [root |-> "", raised |-> FALSE]
    ELSE IF resp.kind = "malformed" THEN [root |-> "", raised |-> TRUE]
    ELSE IF resp.items = <<>> THEN [root |-> "", raised |-> FALSE]
    ELSE LET pages == {k \in 1..Len(resp.items) :
                          resp.items[k].block_type = PageBlockType}
         IN  IF pages # {}
             THEN [root |-> resp.items[CHOOSE k \in pages :
                                          \A m \in pages : k <= m].block_id,
                   raised |-> FALSE]
             ELSE [root |-> resp.items[1].block_id, raised |-> FALSE]

\* root_block_id = await self._get_document_root_block_id(token, doc_id)
push_get_root(resp) ==
    LET r == _get_document_root_block_id(resp)
    IN  /\ pc = "root"
        /\ calls' = Append(calls, Call("root", token, 0, <<>>, 0, "", resp.kind, r.root))
        /\ IF r.raised
           THEN /\ pc' = "raised"
                /\ UNCHANGED <<root_block_id, result>>
           ELSE IF r.root = ""
           THEN /\ result' = fail_result_doc("get_root_block_failed", doc_id, node_token)
                /\ pc' = "returned"
                /\ UNCHANGED root_block_id
           ELSE /\ root_block_id' = r.root
                /\ pc' = "build"
                /\ UNCHANGED result
        /\ UNCHANGED <<cache_vars, now, input_vars, side_vars, token, doc_id, node_token, blocks,
                       image_tasks, append_vars, bind_vars, mindmap_result>>

\* The blocks are identified by their position in the list the classifier
\* returns; a media task has its temporary id, its type and its value.
BlockList(n) == [j \in 1..n |-> j]
TaskLists(n) ==
    UNION {[1..k -> TaskTypes] : k \in 0..Min(n, MaxTasks)}
MediaTasks(types) ==
    [j \in 1..Len(types) |-> [temp_id |-> j, type |-> types[j], value |-> "src"]]
\* The lengths of the block list the pipeline is run with: none, one batch,
\* two batches (the batch loop on its own runs every length up to MaxBlocks).
PushBlockCounts == {0, 1, chunk_size + 1}

\* blocks, image_tasks = self._build_blocks_from_markdown(...); if not blocks: ...
push_build_blocks(n, types) ==
    /\ pc = "build"
    /\ blocks' = BlockList(n)
    /\ image_tasks' = MediaTasks(types)
    /\ IF n = 0
       THEN /\ result' = fail_result_doc("build_blocks_failed", doc_id, node_token)
            /\ pc' = "returned"
       ELSE /\ pc' = "append"
            /\ UNCHANGED result
    /\ UNCHANGED <<cache_vars, now, input_vars, side_vars, token, doc_id, node_token,
                   root_block_id, append_vars, bind_vars, mindmap_result, calls>>

\* ---------------------------------------------------------- _append_blocks

\* One child of a batch response, and the lists of children a response holds.
ChildItems ==
    {[block_type |-> ImageBlockType, block_id |-> b] : b \in RealIds \cup {""}}
    \cup {[block_type |-> 2, block_id |-> "text1"]}
ChildLists ==
    UNION {[1..k -> ChildItems] : k \in 0..MaxAppended}

\* The responses of the children endpoint to one batch of a push with k
\* media tasks: a kind and, with code 0, the id relations (per temporary id
\* the real id, "" when the response has no usable item for it) and the
\* children created, of which at most `room` are image blocks with an id.
AppendResponses(k, room) ==
    {[kind |-> x, rel |-> NoRelations, children |-> <<>>] :
        x \in {"exc", "nonzero", "malformed"}}
    \cup {[kind |-> "ok",
           rel |-> [t \in 1..MaxTasks |-> IF t <= k THEN f[t] ELSE ""],
           children |-> c] :
            f \in [1..k -> RealIds \cup {""}],
            c \in {l \in ChildLists :
                      Cardinality({j \in 1..Len(l) :
                                      l[j].block_type = ImageBlockType
                                      /\ l[j].block_id # ""}) <= room}}

\* A slice one block short: blocks[i : i + chunk_size - 1].
append_chunk_short(bl, i) == SubSeq(bl, i + 1, Min(i + chunk_size - 1, Len(bl)))

\* blocks[i : i + chunk_size]
append_chunk(bl, i) == SubSeq(bl, i + 1, Min(i + chunk_size, Len(bl)))

\* A loop that does not advance: the batch at i is sent again.
append_next_i_stuck(i) == i

\* the next value of range(0, len(blocks), chunk_size)
append_next_i(i) == i + chunk_size

\* if temporary_id and real_id: relations[temporary_id] = real_id
merge_relations(rel, items) ==
    [t \in 1..MaxTasks |-> IF items[t] # "" THEN items[t] ELSE rel[t]]

\* the block ids of the children of block_type 27 that have a block id
image_children(children) ==
    LET sel == SelectSeq(children,
                         LAMBDA c : c.block_type = ImageBlockType /\ c.block_id # "")
    IN  [j \in 1..Len(sel) |-> sel[j].block_id]

\* A batch loop that stops on a failed request only, not on a non-zero code.
append_batch_failed_exc_only(kind) == kind = "exc"

\* whether the loop returns False on this response
append_batch_failed(kind) == kind \in {"exc", "nonzero"}

\* One iteration of the batch loop: the request, its response, and either
\* the early return (False, which push_note turns into append_blocks_failed),
\* the exception, or the bookkeeping of the relations and image children.
_append_blocks_batch(resp) ==
    /\ pc = "append"
    /\ append_i < Len(blocks)
    /\ calls' = Append(calls, Call("append", token, append_i,
                                   append_chunk(blocks, append_i), 0, root_block_id,
                                   resp.kind, ""))
    /\ IF append_batch_failed(resp.kind)
       THEN /\ append_ok' = "false"
            /\ result' = fail_result_doc("append_blocks_failed", doc_id, node_token)
            /\ pc' = "returned"
            /\ UNCHANGED <<append_i, relations, appended_image_block_ids>>
       ELSE IF resp.kind = "malformed"
       THEN /\ append_ok' = "raised"
            /\ pc' = "raised"
            /\ UNCHANGED <<append_i, relations, appended_image_block_ids, result>>
       ELSE /\ relations' = merge_relations(relations, resp.rel)
            /\ appended_image_block_ids' =
                  appended_image_block_ids \o image_children(resp.children)
            /\ append_i' = append_next_i(append_i)
            /\ UNCHANGED <<append_ok, pc, result>>
    /\ UNCHANGED <<cache_vars, now, input_vars, side_vars, push_vars, bind_vars, mindmap_result>>

\* The loop is exhausted: return True, relations, appended_image_block_ids.
_append_blocks_return ==
    /\ pc = "append"
    /\ append_i >= Len(blocks)
    /\ append_ok' = "true"
    /\ pc' = "bind"
    /\ UNCHANGED <<cache_vars, now, input_vars, side_vars, push_vars, append_i, relations,
                   appended_image_block_ids, bind_vars, mindmap_result, result, calls>>

\* ------------------------------------------------------------ _bind_images

\* What one task meets: the state of its source (a local file may be
\* absent, unreadable or empty; a download may answer non-200, fail or be
\* empty), the response to its upload and the response to its patch.
Sources == {"absent", "error", "empty", "bytes"}
UploadResponses == {"exc", "nonzero", "malformed", "notoken", "token"}
PatchResponses == {"exc", "nonzero", "malformed", "ok"}

\* A local upload without the test of empty bytes: an empty file is uploaded.
_upload_image_media_from_local_empty_too(src) == src \in {"bytes", "empty"}

\* _upload_image_media_from_local up to its await: the upload request is
\* sent only when the file exists, is read and is not empty.
_upload_image_media_from_local(src) == src = "bytes"

\* the answer to the POST to medias/upload_all, shared by both upload
\* functions: the file token ("" for None) or an exception of data.get
upload_all(up) ==
    IF up = "malformed" THEN [file_token |-> "", raised |-> TRUE]
    ELSE IF up = "token" THEN [file_token |-> "ftok", raised |-> FALSE]
    ELSE [file_token |-> "", raised |-> FALSE]

\* the answer to the PATCH of _replace_image_block
replace_image(kind) ==
    IF kind = "malformed" THEN [replaced |-> FALSE, raised |-> TRUE]
    ELSE [replaced |-> kind = "ok", raised |-> FALSE]

\* if not image_tasks: return 0, 0; else the locals of the function
_bind_images_enter ==
    /\ pc = "bind"
    /\ ok_count' = 0 /\ fail_count' = 0
    /\ used_block_ids' = {} /\ unresolved' = <<>>
    /\ fallback_block_ids' = <<>> /\ fb_idx' = 0
    /\ task_src' = NoSources /\ bind_wait' = ""
    /\ IF image_tasks = <<>>
       THEN /\ pc' = "mindmap" /\ task_idx' = 0
       ELSE /\ pc' = "bind_resolved" /\ task_idx' = 1
    /\ UNCHANGED <<cache_vars, now, input_vars, side_vars, push_vars, append_vars,
                   mindmap_result, result, calls>>

\* The task a loop is at and the block it binds the task to.
bind_task == IF pc = "bind_resolved" THEN task_idx ELSE unresolved[fb_idx]
bind_block ==
    IF pc = "bind_resolved" THEN relations[image_tasks[task_idx].temp_id]
    ELSE fallback_block_ids[fb_idx]

\* The loop goes to its next task: `continue`, or the end of the loop body.
bind_next ==
    /\ task_idx' = IF pc = "bind_resolved" THEN task_idx + 1 ELSE task_idx
    /\ fb_idx' = IF pc = "bind_fallback" THEN fb_idx + 1 ELSE fb_idx
    /\ bind_wait' = ""

\* fail_count += 1; continue (also the except clause of the loop body)
bind_failed ==
    /\ fail_count' = fail_count + 1
    /\ UNCHANGED ok_count
    /\ bind_next

\* The body of the try block up to its first await: a task without value
\* fails at once; a local task reads its file and sends its upload, or
\* fails without any request; a URL task sends its download.
bind_start(src) ==
    LET task == image_tasks[bind_task]
    IN  IF task.value = ""
        THEN bind_failed /\ UNCHANGED task_src
        ELSE IF task.type = "local"
        THEN /\ task_src' = [task_src EXCEPT ![bind_task] = src]
             /\ IF _upload_image_media_from_local(src)
                THEN /\ bind_wait' = "upload"
                     /\ UNCHANGED <<task_idx, fb_idx, ok_count, fail_count>>
                ELSE bind_failed
        ELSE /\ bind_wait' = "download"
             /\ UNCHANGED <<task_src, task_idx, fb_idx, ok_count, fail_count>>

\* A first loop that does not mark the block of a resolved task as used.
used_after_unmarked(used, block_id) == used

\* used_block_ids.add(block_id): the block ids a pass over the tasks marks used
used_after(used, block_id) == used \cup {block_id}

\* One iteration of the first loop, up to its first await: a task without
\* id relation is put aside; the block of a task with one is marked used
\* and the task starts on it.
_bind_images_resolved(src) ==
    /\ pc = "bind_resolved"
    /\ bind_wait = ""
    /\ task_idx <= Len(image_tasks)
    /\ IF bind_block = ""
       THEN /\ unresolved' = Append(unresolved, task_idx)
            /\ task_idx' = task_idx + 1
            /\ UNCHANGED <<used_block_ids, fb_idx, ok_count, fail_count, task_src,
                           bind_wait>>
       ELSE /\ used_block_ids' = used_after(used_block_ids, bind_block)
            /\ bind_start(src)
            /\ UNCHANGED unresolved
    /\ UNCHANGED <<cache_vars, now, pc, input_vars, side_vars, push_vars, append_vars,
                   fallback_block_ids, mindmap_result, result, calls>>

\* A fallback list that keeps the block ids the relations already used.
fallback_ids_unfiltered(appended, used) == appended

\* [bid for bid in appended_image_block_ids if bid not in used_block_ids]
fallback_ids(appended, used) == SelectSeq(appended, LAMBDA b : b \notin used)

_bind_images_fallback_ids ==
    /\ pc = "bind_resolved"
    /\ bind_wait = ""
    /\ task_idx > Len(image_tasks)
    /\ fallback_block_ids' = fallback_ids(appended_image_block_ids, used_block_ids)
    /\ fb_idx' = 1
    /\ pc' = "bind_fallback"
    /\ UNCHANGED <<cache_vars, now, input_vars, side_vars, push_vars, append_vars, task_idx,
                   used_block_ids, unresolved, ok_count, fail_count, task_src, bind_wait,
                   mindmap_result, result, calls>>

\* the number of pairs of zip(unresolved, fallback_block_ids)
zip_len(unres, fallback) == Min(Len(unres), Len(fallback))

\* One iteration of the second loop, up to its first await: the fb_idx-th
\* unresolved task starts on the fb_idx-th fallback block id.
_bind_images_fallback(src) ==
    /\ pc = "bind_fallback"
    /\ bind_wait = ""
    /\ fb_idx <= zip_len(unresolved, fallback_block_ids)
    /\ bind_start(src)
    /\ UNCHANGED <<cache_vars, now, pc, input_vars, side_vars, push_vars, append_vars,
                   used_block_ids, unresolved, fallback_block_ids,
                   mindmap_result, result, calls>>

\* The frame of an answer to a request of the task a loop is at.
bind_answer_frame ==
    UNCHANGED <<cache_vars, now, pc, input_vars, side_vars, push_vars, append_vars,
                used_block_ids, unresolved, fallback_block_ids, mindmap_result, result>>

\* _upload_image_media_from_url from the answer to its download on: no
\* status 200, a failed request or no bytes return None; else the upload
\* request is sent.
_upload_image_media_from_url(src) ==
    /\ pc \in {"bind_resolved", "bind_fallback"}
    /\ bind_wait = "download"
    /\ calls' = Append(calls, Call("download", "", 0, <<>>,
                                   image_tasks[bind_task].temp_id, "", "", ""))
    /\ task_src' = [task_src EXCEPT ![bind_task] = src]
    /\ IF src = "bytes"
       THEN /\ bind_wait' = "upload"
            /\ UNCHANGED <<task_idx, fb_idx, ok_count, fail_count>>
       ELSE bind_failed
    /\ bind_answer_frame

\* Either upload function from the answer to its upload on, and the test of
\* the file token in the loop body: without one the task fails, with one
\* the patch request of _replace_image_block is sent.
bind_uploaded(up) ==
    /\ pc \in {"bind_resolved", "bind_fallback"}
    /\ bind_wait = "upload"
    /\ calls' = Append(calls, Call("upload", token, 0, <<>>,
                                   image_tasks[bind_task].temp_id, bind_block, "", ""))
    /\ IF upload_all(up).raised \/ upload_all(up).file_token = ""
       THEN bind_failed
       ELSE /\ bind_wait' = "patch"
            /\ UNCHANGED <<task_idx, fb_idx, ok_count, fail_count>>
    /\ UNCHANGED task_src
    /\ bind_answer_frame

\* _replace_image_block from the answer to its patch on, and the counting
\* of the task in the loop body.
_replace_image_block(kind) ==
    /\ pc \in {"bind_resolved", "bind_fallback"}
    /\ bind_wait = "patch"
    /\ calls' = Append(calls, Call("patch", token, 0, <<>>,
                                   image_tasks[bind_task].temp_id, bind_block, "", ""))
    /\ IF ~replace_image(kind).raised /\ replace_image(kind).replaced
       THEN /\ ok_count' = ok_count + 1
            /\ UNCHANGED fail_count
            /\ bind_next
       ELSE bind_failed
    /\ UNCHANGED task_src
    /\ bind_answer_frame

\* A last loop that counts the tasks left without a block as one failure.
missing_count_once(unres, fallback) == IF Len(unres) > Len(fallback) THEN 1 ELSE 0

\* the unresolved tasks left without a fallback block id, each a failure
missing_count(unres, fallback) == Max(0, Len(unres) - Len(fallback))

\* The last loop (no await) and the return of the counts.
_bind_images_return ==
    /\ pc = "bind_fallback"
    /\ bind_wait = ""
    /\ fb_idx > zip_len(unresolved, fallback_block_ids)
    /\ fail_count' = fail_count + missing_count(unresolved, fallback_block_ids)
    /\ pc' = "mindmap"
    /\ UNCHANGED <<cache_vars, now, input_vars, side_vars, push_vars, append_vars, task_idx,
                   used_block_ids, unresolved, fallback_block_ids, fb_idx, ok_count,
                   task_src, bind_wait, mindmap_result, result, calls>>

\* ------------------------------------------ _try_insert_mindmap_whiteboard

\* A sub-result that reports success whenever the step was not skipped.
mindmap_outcome_optimistic(success, skipped, reason) ==
    [attempted |-> TRUE, success |-> ~skipped, skipped |-> skipped, reason |-> reason]

mindmap_outcome(success, skipped, reason) ==
    [attempted |-> TRUE, success |-> success, skipped |-> skipped, reason |-> reason]

\* A return that reports success only when every media task was bound.
push_return_strict(mm) ==
    /\ mindmap_result' = mm
    /\ result' = [success |-> fail_count = 0, error |-> "", has_doc |-> TRUE,
                  doc_id |-> doc_id, node_token |-> node_token,
                  doc_url |-> _build_doc_url(node_token),
                  images_ok |-> ok_count, images_fail |-> fail_count,
                  image_tasks |-> Len(image_tasks), mindmap |-> mm]
    /\ pc' = "returned"

\* The success return of push_note, with the sub-result of the diagram step.
push_return(mm) ==
    /\ mindmap_result' = mm
    /\ result' = [success |-> TRUE, error |-> "", has_doc |-> TRUE, doc_id |-> doc_id,
                  node_token |-> node_token, doc_url |-> _build_doc_url(node_token),
                  images_ok |-> ok_count, images_fail |-> fail_count,
                  image_tasks |-> Len(image_tasks), mindmap |-> mm]
    /\ pc' = "returned"

\* mermaid = (mindmap_mermaid or "").strip(); if not mermaid: skipped
_try_insert_mindmap_whiteboard ==
    /\ pc = "mindmap"
    /\ IF mindmap_blank
       THEN push_return(mindmap_outcome(FALSE, TRUE, "mindmap_empty"))
       ELSE /\ pc' = "wb_root"
            /\ UNCHANGED <<mindmap_result, result>>
    /\ UNCHANGED <<cache_vars, now, input_vars, side_vars, push_vars, append_vars, bind_vars,
                   calls>>

\* _create_whiteboard_block, its root lookup: no root raises
\* RuntimeError("root_block_not_found"), caught by the caller's except.
_create_whiteboard_block_root(resp) ==
    LET r == _get_document_root_block_id(resp)
    IN  /\ pc = "wb_root"
        /\ calls' = Append(calls, Call("wb_root", token, 0, <<>>, 0, "", resp.kind,
                                       r.root))
        /\ IF r.raised \/ r.root = ""
           THEN push_return(mindmap_outcome(FALSE, FALSE, "whiteboard_exception"))
           ELSE /\ pc' = "wb_create"
                /\ UNCHANGED <<mindmap_result, result>>
        /\ UNCHANGED <<cache_vars, now, input_vars, side_vars, push_vars, append_vars, bind_vars>>

\* The responses to the creation of the whiteboard block: a failure of the
\* request, a non-zero code, a body that is no object, no child of type 43,
\* a child without board token, a child with one.
WhiteboardResponses ==
    {"exc", "nonzero", "malformed", "nochild", "child_notoken", "child"}

\* _create_whiteboard_block, its POST, and the board token the caller reads
_create_whiteboard_block_post(kind) ==
    /\ pc = "wb_create"
    /\ calls' = Append(calls, Call("wb_create", token, 0, <<>>, 0, "root1", kind, ""))
    /\ IF kind \in {"exc", "nonzero", "malformed", "nochild"}
       THEN push_return(mindmap_outcome(FALSE, FALSE, "whiteboard_exception"))
       ELSE IF kind = "child_notoken"
       THEN push_return(mindmap_outcome(FALSE, FALSE, "whiteboard_token_missing"))
       ELSE /\ pc' = "mermaid"
            /\ UNCHANGED <<mindmap_result, result>>
    /\ UNCHANGED <<cache_vars, now, input_vars, side_vars, push_vars, append_vars, bind_vars>>

MermaidResponses == {"exc", "nonzero", "malformed", "ok"}

\* _create_mermaid_node: anything but code 0 raises, caught by the caller
_create_mermaid_node(kind) ==
    /\ pc = "mermaid"
    /\ calls' = Append(calls, Call("mermaid", token, 0, <<>>, 0, "", kind, ""))
    /\ IF kind = "ok"
       THEN push_return(mindmap_outcome(TRUE, FALSE, ""))
       ELSE push_return(mindmap_outcome(FALSE, FALSE, "whiteboard_exception"))
    /\ UNCHANGED <<cache_vars, now, input_vars, side_vars, push_vars, append_vars, bind_vars>>

\* --------------------------------------------------- the push pipeline

\* The batch responses the pipeline is run against: the failures, and with
\* code 0 the relations of the first j tasks and at most one child.
prefix_relations(j) ==
    [t \in 1..MaxTasks |->
        IF t <= j THEN (IF t % 2 = 1 THEN "blkA" ELSE "blkB") ELSE ""]
PushAppendResponses(k, room) ==
    {[kind |-> x, rel |-> NoRelations, children |-> <<>>] :
        x \in {"exc", "nonzero", "malformed"}}
    \cup {[kind |-> "ok", rel |-> prefix_relations(j), children |-> c] :
            j \in 0..k,
            c \in {<<>>, <<[block_type |-> 2, block_id |-> "text1"]>>}
                  \cup {<<[block_type |-> ImageBlockType, block_id |-> "blkB"]>> :
                           x \in 1..Min(room, 1)}}

\* the image ids the bound on the list of confirmed ids leaves room for
appended_room == MaxAppended - Len(appended_image_block_ids)

\* The next push_note call on the same instance: new arguments, the cache kept.
next_call ==
    /\ pc \in {"returned", "raised"}
    /\ pc' = "idle"
    /\ note_text' \in PushNotes
    /\ mindmap_mermaid' \in Mermaids
    /\ reset_push
    /\ UNCHANGED <<cache_vars, now, config, side_vars>>

Init ==
    /\ fresh_cache /\ now = 0 /\ pc = "idle"
    /\ \E a \in RawConfigValues, b \in RawConfigValues, c \in RawConfigValues :
          config = __init__(a, b, c)
    /\ note_text \in PushNotes
    /\ mindmap_mermaid \in Mermaids
    /\ idle_push /\ side_idle

Next ==
    \/ push_note
    \/ push_token_begin
    \/ \E resp \in TokenResponses({"tokA"}, {DefaultExpire}) : push_token_end(resp)
    \/ other_token_begin
    \/ \E resp \in OtherTokenResponses : other_token_end(resp)
    \/ \E resp \in CreateDocResponses : push_create_doc(resp)
    \/ \E resp \in RootResponses : push_get_root(resp)
    \/ \E n \in PushBlockCounts : \E types \in TaskLists(n) : push_build_blocks(n, types)
    \/ \E resp \in PushAppendResponses(Len(image_tasks), appended_room) :
          _append_blocks_batch(resp)
    \/ _append_blocks_return
    \/ _bind_images_enter
    \/ \E src \in Sources : _bind_images_resolved(src)
    \/ _bind_images_fallback_ids
    \/ \E src \in Sources : _bind_images_fallback(src)
    \/ \E src \in Sources : _upload_image_media_from_url(src)
    \/ \E up \in UploadResponses : bind_uploaded(up)
    \/ \E kind \in PatchResponses : _replace_image_block(kind)
    \/ _bind_images_return
    \/ _try_insert_mindmap_whiteboard
    \/ \E resp \in RootResponses : _create_whiteboard_block_root(resp)
    \/ \E kind \in WhiteboardResponses : _create_whiteboard_block_post(kind)
    \/ \E kind \in MermaidResponses : _create_mermaid_node(kind)
    \/ next_call

Spec == Init /\ [][Next]_vars

\* ----------------------------- _append_blocks and _bind_images on their own

\* The log of a push that reached the batch loop: token, document, root.
calls_before_append ==
    <<Call("token", "", 0, <<>>, 0, "", "ok", "tokA"),
      Call("create_doc", "tokA", 0, <<>>, 0, "node1", "ok", "doc1"),
      Call("root", "tokA", 0, <<>>, 0, "", "ok", "root1")>>

\* A push that obtained its token, document and root block.
push_in_progress ==
    /\ _token = "tokA" /\ _token_expire_at = token_expire_at(0, DefaultExpire)
    /\ stated = [at |-> 0, expire |-> DefaultExpire]
    /\ token_obs = [called |-> TRUE, at |-> 0, requested |-> TRUE, ret |-> "tokA",
                    raised |-> FALSE, had_token |-> FALSE]
    /\ now = 0
    /\ config = ReadyConfig /\ note_text = PlainNote /\ mindmap_mermaid = <<>>
    /\ token = "tokA" /\ doc_id = "doc1" /\ node_token = "node1"
    /\ root_block_id = "root1"
    /\ task_idx = 0 /\ used_block_ids = {} /\ unresolved = <<>>
    /\ fallback_block_ids = <<>> /\ fb_idx = 0 /\ ok_count = 0 /\ fail_count = 0
    /\ task_src = NoSources /\ bind_wait = ""
    /\ mindmap_result = NoMindmap /\ result = NoResult
    /\ side_idle

\* _append_blocks entered with any block list of 1..MaxBlocks blocks, of
\* which at most one is an image placeholder.
InitAppend ==
    /\ push_in_progress
    /\ pc = "append"
    /\ \E n \in 1..MaxBlocks : \E types \in TaskLists(1) :
          /\ blocks = BlockList(n)
          /\ image_tasks = MediaTasks(types)
    /\ append_i = 0 /\ append_ok = "pending" /\ relations = NoRelations
    /\ appended_image_block_ids = <<>>
    /\ calls = calls_before_append

NextAppend ==
    \/ \E resp \in AppendResponses(Len(image_tasks), appended_room) :
          _append_blocks_batch(resp)
    \/ _append_blocks_return

SpecAppend == InitAppend /\ [][NextAppend]_vars

\* the lists of at most MaxAppended real block ids
AppendedLists == UNION {[1..k -> RealIds] : k \in 0..MaxAppended}

\* _bind_images entered with any tasks, id relations and confirmed image ids
\* that one successful batch can leave.
InitBind ==
    /\ push_in_progress
    /\ pc = "bind"
    /\ \E types \in TaskLists(MaxTasks) :
          /\ blocks = BlockList(Max(1, Len(types)))
          /\ image_tasks = MediaTasks(types)
          /\ relations \in {r \in [1..MaxTasks -> RealIds \cup {""}] :
                               \A t \in 1..MaxTasks : t > Len(types) => r[t] = ""}
    /\ appended_image_block_ids \in AppendedLists
    /\ append_i = chunk_size /\ append_ok = "true"
    /\ calls = Append(calls_before_append,
                      Call("append", "tokA", 0, blocks, 0, "root1", "ok", ""))

NextBind ==
    \/ _bind_images_enter
    \/ \E src \in Sources : _bind_images_resolved(src)
    \/ _bind_images_fallback_ids
    \/ \E src \in Sources : _bind_images_fallback(src)
    \/ \E src \in Sources : _upload_image_media_from_url(src)
    \/ \E up \in UploadResponses : bind_uploaded(up)
    \/ \E kind \in PatchResponses : _replace_image_block(kind)
    \/ _bind_images_return

SpecBind == InitBind /\ [][NextBind]_vars

\* ------------------------------------------- _build_blocks_from_markdown

\* The characters of [a-zA-Z0-9_+-] and of \d that the texts use.
Letters == {"a", "b", "c", "h", "m", "p", "t", "u", "x", "y"}
Digits == {"1", "2"}
LangChars == Letters \cup Digits \cup {"_", "+", "-"}

starts_with(s, prefix) ==
    Len(s) >= Len(prefix) /\ SubSeq(s, 1, Len(prefix)) = prefix
drop(s, k) == SubSeq(s, k + 1, Len(s))
\* the length of the longest prefix of s whose characters are in set
RECURSIVE span(_, _)
span(s, set) == IF s # <<>> /\ Head(s) \in set THEN 1 + span(Tail(s), set) ELSE 0
\* the position of the first occurrence of ch in s, 0 when there is none
find(s, ch) ==
    LET hits == {k \in 1..Len(s) : s[k] = ch}
    IN  IF hits = {} THEN 0 ELSE CHOOSE k \in hits : \A h \in hits : k <= h

\* "\n".join(lines).strip(), as lines: blank lines at both ends go, the
\* first line loses its leading and the last its trailing whitespace.
join_strip(lines) ==
    LET full == {k \in 1..Len(lines) : strip(lines[k]) # <<>>}
    IN  IF full = {} THEN <<>>
        ELSE LET f == CHOOSE k \in full : \A m \in full : k <= m
                 l == CHOOSE k \in full : \A m \in full : k >= m
             IN  [k \in 1..(l - f + 1) |->
                    IF f = l THEN strip(lines[f])
                    ELSE IF k = 1 THEN lstrip(lines[f])
                    ELSE IF k = l - f + 1 THEN rstrip(lines[l])
                    ELSE lines[f + k - 1]]

\* The grave accent U+0060 as one character of a line (a string of the
\* module cannot hold the character itself).
Backtick == "GRAVE"

\* the fence pattern of line 376: three backticks, then only characters of
\* the language class (stripped ends with no whitespace)
fence_match(s) ==
    /\ starts_with(s, <<Backtick, Backtick, Backtick>>)
    /\ span(drop(s, 3), LangChars) = Len(s) - 3
\* the language of the fence, lower case (the texts hold no upper case)
fence_lang(s) == drop(s, 3)

\* stripped.startswith("$$") and stripped.endswith("$$") and len(stripped) > 4
inline_formula_match(s) ==
    /\ Len(s) > 4
    /\ starts_with(s, <<"$", "$">>)
    /\ SubSeq(s, Len(s) - 1, Len(s)) = <<"$", "$">>
\* stripped[2:-2].strip()
inline_formula_expr(s) == strip(SubSeq(s, 3, Len(s) - 2))

\* the image pattern of line 425: "![", an alt text that ends at the first
\* "]", "(", a url that starts with http:// or https:// and holds no ")",
\* and a final ")"
image_parts(s) ==
    LET close == find(s, "]")
        url == SubSeq(s, close + 2, Len(s) - 1)
        scheme == IF starts_with(url, <<"h", "t", "t", "p", "s", ":", "/", "/">>) THEN 8
                  ELSE IF starts_with(url, <<"h", "t", "t", "p", ":", "/", "/">>) THEN 7
                  ELSE 0
    IN  [match |-> /\ starts_with(s, <<"!", "[">>)
                   /\ close > 2
                   /\ Len(s) > close + 2
                   /\ s[close + 1] = "("
                   /\ s[Len(s)] = ")"
                   /\ scheme > 0
                   /\ Len(url) > scheme
                   /\ find(url, ")") = 0,
         alt |-> IF close > 2 THEN strip(SubSeq(s, 3, close - 1)) ELSE <<>>,
         url |-> strip(url)]

\* the heading pattern of lines 437 and 531: one to six "#", whitespace,
\* the rest; the level (0 without a match) and heading.group(2).strip()
heading_level(s) ==
    LET k == span(s, {"#"})
    IN  IF k \in 1..6 /\ Len(s) > k /\ s[k + 1] \in Whitespace THEN k ELSE 0
heading_text(s) == strip(drop(s, span(s, {"#"})))

\* the rule pattern of line 456: three or more of "-", of "_" or of "*"
rule_match(s) ==
    Len(s) >= 3 /\ \E ch \in {"-", "_", "*"} : span(s, {ch}) = Len(s)

\* the quote pattern of line 461: ">" and the rest; quote.group(1).strip()
quote_match(s) == s # <<>> /\ Head(s) = ">"
quote_text(s) == strip(drop(s, 1))

\* the bullet pattern of line 469: "-" or "*", whitespace, the rest
bullet_match(s) == Len(s) >= 2 /\ s[1] \in {"-", "*"} /\ s[2] \in Whitespace
bullet_text(s) == strip(drop(s, 1))

\* the ordered pattern of line 477: digits, ".", whitespace, the rest
ordered_match(s) ==
    LET d == span(s, Digits)
    IN  d >= 1 /\ Len(s) >= d + 2 /\ s[d + 1] = "." /\ s[d + 2] \in Whitespace
ordered_text(s) == strip(drop(s, span(s, Digits) + 1))

\* stripped.startswith("|") and "|" in stripped[1:]
table_match(s) == s # <<>> /\ Head(s) = "|" /\ find(Tail(s), "|") > 0
\* stripped.strip("| ")
RECURSIVE strip_bars(_)
strip_bars(s) ==
    IF s # <<>> /\ Head(s) \in {"|", " "} THEN strip_bars(Tail(s))
    ELSE IF s # <<>> /\ s[Len(s)] \in {"|", " "} THEN strip_bars(SubSeq(s, 1, Len(s) - 1))
    ELSE s
\* line 486: every "|" with the whitespace around it becomes " | "
RECURSIVE space_bars(_)
space_bars(s) ==
    IF s = <<>> THEN <<>>
    ELSE LET w == span(s, Whitespace)
         IN  IF w < Len(s) /\ s[w + 1] = "|"
             THEN <<" ", "|", " ">> \o space_bars(lstrip(drop(s, w + 1)))
             ELSE IF w > 0 THEN SubSeq(s, 1, w) \o space_bars(drop(s, w))
             ELSE <<Head(s)>> \o space_bars(Tail(s))
table_text(s) == space_bars(strip_bars(s))

\* _split_text: the text itself when it is no longer than max_len, else
\* its pieces of max_len characters
split_max_len == 900
_split_text(text, max_len) ==
    IF Len(text) <= max_len THEN <<text>>
    ELSE [k \in 1..((Len(text) + max_len - 1) \div max_len) |->
            SubSeq(text, (k - 1) * max_len + 1, Min(k * max_len, Len(text)))]

\* The blocks the constructors make: the block type, the element that
\* holds the content, the content (a text for code and equations, a string
\* for the rest), the language handed to _code_block and the temporary id
\* of an image placeholder.
TextBlockType == 2
ListBulletType == 12
ListOrderedType == 13
CodeBlockType == 14
Block(bt, elem, content, lang, temp_id) ==
    [block_type |-> bt, elem |-> elem, content |-> content, lang |-> lang,
     temp_id |-> temp_id]
_text_block(content) == Block(TextBlockType, "text_run", content, <<>>, 0)
_text_block_with_inline(content) == Block(TextBlockType, "inline", content, <<>>, 0)
_list_block_with_inline(content, ordered) ==
    Block(IF ordered THEN ListOrderedType ELSE ListBulletType, "inline", content, <<>>, 0)
_code_block(code, lang) == Block(CodeBlockType, "code", code, lang, 0)
_equation_block(expr) == Block(TextBlockType, "equation", expr, <<>>, 0)
\* A placeholder that writes its temporary id into its content as well.
_image_block_id_in_content(temp_id) ==
    Block(ImageBlockType, "image", <<temp_id>>, <<>>, temp_id)
\* A placeholder that does not carry the temporary id of its task.
_image_block_without_id(temp_id) == Block(ImageBlockType, "image", <<>>, <<>>, 0)
\* _image_block: "block_id": temp_id
_image_block(temp_id) == Block(ImageBlockType, "image", <<>>, <<>>, temp_id)
_heading_block(level, content) ==
    Block(2 + Max(1, Min(6, level)), "heading", content, <<>>, 0)

\* The fixed texts the classifier writes (their characters are outside the
\* strings of the module): the label before the video url, the label before
\* the alt text of an image, the bar before a quote, the drawn rule.
VideoLinkLabel == <<"[video-link]">>
FigureLabel == <<"[figure]">>
QuoteBar == <<"[bar]">>
RuleText == <<"[rule]">>

\* A rounding that cuts the fraction off.
round_down(a, b) == a \div b

\* round(a / b) of Python for a >= 0 and b > 0: to the nearest integer, a
\* half to the even one.
round_half_even(a, b) ==
    LET q == a \div b
        r == a % b
    IN  IF 2 * r < b THEN q
        ELSE IF 2 * r > b THEN q + 1
        ELSE IF q % 2 = 0 THEN q ELSE q + 1

\* A scan that counts only the headings of level 2 or deeper.
heading_indexes_deep_only(lines) ==
    LET deep(k) == heading_level(strip(lines[k])) >= 2
        hs == SelectSeq([k \in 1..Len(lines) |-> k], deep)
    IN  [j \in 1..Len(hs) |-> Cardinality({i \in 1..(hs[j] - 1) : deep(i)})]

\* The scan of lines 526-537: heading_seen counts every line that matches
\* the heading pattern, heading_indexes takes the count at those of level 2
\* or deeper.
heading_indexes(lines) ==
    LET deep(k) == heading_level(strip(lines[k])) >= 2
        hs == SelectSeq([k \in 1..Len(lines) |-> k], deep)
    IN  [j \in 1..Len(hs) |->
            Cardinality({i \in 1..(hs[j] - 1) : heading_level(strip(lines[i])) > 0})]

\* pos of line 550 for the asset at 0-based position i, m headings, n assets
slot_of(i, m, n) == round_half_even(i * (m - 1), Max(1, n - 1))

\* A list that loses the path appended last.
append_in_order_dropping(paths, sel) == [j \in 1..(Len(sel) - 1) |-> paths[sel[j]]]

\* mapping[heading_idx].append(path) in the order of the enumeration: the
\* paths at the 1-based positions sel, which are increasing
append_in_order(paths, sel) == [j \in 1..Len(sel) |-> paths[sel[j]]]

\* _build_screenshot_insert_map: the dict as a function from its keys (the
\* empty dict is the function with no key)
_build_screenshot_insert_map(lines, paths) ==
    LET hi == heading_indexes(lines)
        n == Len(paths)
        m == Len(hi)
        keys == {hi[j] : j \in 1..m}
        sel(k) == SelectSeq([i \in 1..n |-> i],
                            LAMBDA i : hi[slot_of(i - 1, m, n) + 1] = k)
    IN  IF paths = <<>> \/ hi = <<>> THEN <<>>
        ELSE IF m = 1 THEN [k \in keys |-> paths]
        ELSE [k \in keys |-> append_in_order(paths, sel(k))]

\* screenshot_insert_map.get(idx, [])
map_get(map, idx) == IF idx \in DOMAIN map THEN map[idx] ELSE <<>>

\* temp_id = f"simg_{uuid.uuid4().hex[:12]}": an id that no placeholder of
\* the run has, made of the random part of the run and a count.
UuidBases == {0, 100}
fresh_temp_id(tasks) == uuid_base + Len(tasks) + 1

\* The loop of lines 442-450 and of lines 510-516: for every path of the
\* list that is an existing file, a placeholder with a new temporary id
\* (the uuid: a value no earlier placeholder has) and its local task.
RECURSIVE add_local_images(_, _, _)
add_local_images(st, paths, files) ==
    IF paths = <<>> THEN st
    ELSE IF Head(paths) \notin files THEN add_local_images(st, Tail(paths), files)
    ELSE LET temp_id == fresh_temp_id(st.image_tasks)
         IN  add_local_images(
                 [st EXCEPT !.blocks = Append(@, _image_block(temp_id)),
                            !.image_tasks = Append(@, [temp_id |-> temp_id,
                                                       type |-> "local",
                                                       value |-> Head(paths)])],
                 Tail(paths), files)

\* One iteration of the loop of lines 371-492 on the line raw: st holds
\* the locals of the builder, map the plan, files the paths that exist.
classify_line(st, raw, map, files) ==
    LET line == raw
        stripped == strip(line)
        put(b) == [st EXCEPT !.blocks = Append(@, b)]
        img == image_parts(stripped)
    IN  IF fence_match(stripped)
        THEN IF ~st.in_code_block
             THEN [st EXCEPT !.in_code_block = TRUE,
                             !.code_lang = strip(fence_lang(stripped)),
                             !.code_lines = <<>>]
             ELSE LET code_text == join_strip(st.code_lines)
                  IN  [st EXCEPT !.blocks = IF code_text # <<>>
                                            THEN Append(@, _code_block(code_text, st.code_lang))
                                            ELSE @,
                                 !.in_code_block = FALSE,
                                 !.code_lang = <<>>,
                                 !.code_lines = <<>>]
        ELSE IF st.in_code_block
        THEN [st EXCEPT !.code_lines = Append(@, line)]
        ELSE IF stripped = <<"$", "$">>
        THEN IF ~st.in_formula_block
             THEN [st EXCEPT !.in_formula_block = TRUE, !.formula_lines = <<>>]
             ELSE LET expr == join_strip(st.formula_lines)
                  IN  [st EXCEPT !.blocks = IF expr # <<>>
                                            THEN Append(@, _equation_block(expr))
                                            ELSE @,
                                 !.in_formula_block = FALSE,
                                 !.formula_lines = <<>>]
        ELSE IF st.in_formula_block
        THEN [st EXCEPT !.formula_lines = Append(@, line)]
        ELSE IF inline_formula_match(stripped)
        THEN IF inline_formula_expr(stripped) # <<>>
             THEN put(_equation_block(<<inline_formula_expr(stripped)>>))
             ELSE st
        ELSE IF stripped = <<>>
        THEN st
        ELSE IF img.match
        THEN LET temp_id == fresh_temp_id(st.image_tasks)
                 with_image ==
                     [st EXCEPT !.blocks = Append(@, _image_block(temp_id)),
                                !.image_tasks = Append(@, [temp_id |-> temp_id,
                                                           type |-> "url",
                                                           value |-> img.url])]
             IN  IF img.alt # <<>>
                 THEN [with_image EXCEPT
                          !.blocks = Append(@, _text_block(FigureLabel \o img.alt))]
                 ELSE with_image
        ELSE IF heading_level(stripped) > 0
        THEN IF heading_text(stripped) # <<>>
             THEN LET headed == put(_heading_block(heading_level(stripped),
                                                   heading_text(stripped)))
                      bound_paths == map_get(map, st.screenshot_global_idx)
                      placed == add_local_images(headed, bound_paths, files)
                  IN  [placed EXCEPT !.screenshot_global_idx = @ + 1]
             ELSE st
        ELSE IF rule_match(stripped)
        THEN put(_text_block(RuleText))
        ELSE IF quote_match(stripped)
        THEN IF quote_text(stripped) # <<>>
             THEN put(_text_block(QuoteBar \o quote_text(stripped)))
             ELSE st
        ELSE IF bullet_match(stripped)
        THEN put(_list_block_with_inline(bullet_text(stripped), FALSE))
        ELSE IF ordered_match(stripped)
        THEN put(_list_block_with_inline(ordered_text(stripped), TRUE))
        ELSE IF table_match(stripped)
        THEN put(_text_block(table_text(stripped)))
        ELSE LET parts == _split_text(stripped, split_max_len)
             IN  [st EXCEPT !.blocks = @ \o [k \in 1..Len(parts) |->
                                               _text_block_with_inline(parts[k])]]

\* An end of the builder that forgets the open blocks.
flush_nothing(st) == st

\* lines 494-503: a code block and a formula block left open at the end
flush_open_blocks(st) ==
    LET code_text == join_strip(st.code_lines)
        coded == IF st.in_code_block /\ st.code_lines # <<>> /\ code_text # <<>>
                 THEN [st EXCEPT !.blocks = Append(@, _code_block(code_text, st.code_lang))]
                 ELSE st
        expr == join_strip(st.formula_lines)
    IN  IF st.in_formula_block /\ st.formula_lines # <<>> /\ expr # <<>>
        THEN [coded EXCEPT !.blocks = Append(@, _equation_block(expr))]
        ELSE coded

\* lines 505-509: the paths of the list that no key of the plan holds
remaining_paths(paths, map) ==
    LET consumed_paths == UNION {{map[k][j] : j \in 1..Len(map[k])} : k \in DOMAIN map}
    IN  SelectSeq(paths, LAMBDA p : p \notin consumed_paths)

\* ----------------------------------- the builder as a state machine

\* The texts the builder is run on: every text of at most MaxLines lines
\* drawn from CoreLines, and some texts with the other kinds of line.
Fence == <<Backtick, Backtick, Backtick>>
FormulaMark == <<"$", "$">>
CoreLines == {Fence, FormulaMark, <<"#", " ", "a">>, <<"#", "#", " ", "b">>}
TextsUpTo(n) == UNION {[1..k -> CoreLines] : k \in 0..n}
ImageLine == <<"!", "[", "x", "]", "(", "h", "t", "t", "p", ":", "/", "/", "u", ")">>
SampleTexts ==
    { << ImageLine, <<">", " ", "c">>, <<"-", " ", "c">>, <<"1", ".", " ", "c">> >>,
      << <<"-", "-", "-">>, <<"|", "a", "|", "b", "|">>, <<"$", "$", "x", "$", "$">>, <<>> >>,
      << <<"#">>, <<">">>, <<"-">>, <<"1", ".">> >>,
      << Fence, <<" ">>, <<>> >>,
      << <<"#", "#", " ", "b">>, <<"c">>, Fence, <<"c">>, Fence, <<"c">> >>,
      << FormulaMark, <<"c">>, FormulaMark, <<"#", "#", " ", "b">>, <<"c">> >>,
      << Fence \o <<"p", "y">>, <<" ", "c">>, <<"#", "#", " ", "b">>, <<" ", "#", "#", "#", " ", "t", " ">> >> }
BuildTexts == TextsUpTo(MaxLines) \cup SampleTexts
VideoUrls == {<<>>, <<"u">>}
PathNames == <<"p1", "p2", "p3", "p4", "p5", "p6">>

\* _build_blocks_from_markdown is entered with a text, a video url and a
\* list of distinct paths of which at most one is not an existing file.
InitBuildOn(texts) ==
    /\ fresh_cache /\ now = 0 /\ pc = "build_enter"
    /\ config = ReadyConfig /\ mindmap_mermaid = <<>>
    /\ idle_push /\ conc_idle /\ inline_idle /\ title_idle /\ rerun_idle /\ token_idle
    /\ note_text \in texts
    /\ video_url \in VideoUrls
    /\ \E k \in 0..MaxShots :
          /\ screenshot_paths = SubSeq(PathNames, 1, k)
          /\ \E missing \in 0..k :
                existing_files = {PathNames[i] : i \in (1..k) \ {missing}}
    /\ line_i = 0 /\ in_code_block = FALSE /\ code_lang = <<>> /\ code_lines = <<>>
    /\ in_formula_block = FALSE /\ formula_lines = <<>>
    /\ screenshot_global_idx = 0 /\ screenshot_insert_map = <<>>

InitBuild == InitBuildOn(BuildTexts)

\* The locals of the builder, as classify_line takes them.
builder_locals ==
    [blocks |-> blocks, image_tasks |-> image_tasks,
     in_code_block |-> in_code_block, code_lang |-> code_lang,
     code_lines |-> code_lines, in_formula_block |-> in_formula_block,
     formula_lines |-> formula_lines,
     screenshot_global_idx |-> screenshot_global_idx]

\* lines 354-369: the plan is computed, the video link is written, the
\* locals are set
\* line 359: screenshot_global_idx = 0
start_global_idx == 0

build_start(base) ==
    /\ pc = "build_enter"
    /\ uuid_base' = base
    /\ runs' = runs + 1
    /\ screenshot_insert_map' = _build_screenshot_insert_map(note_text, screenshot_paths)
    /\ screenshot_global_idx' = start_global_idx
    /\ blocks' = IF video_url # <<>> THEN <<_text_block(VideoLinkLabel \o video_url)>>
                 ELSE <<>>
    /\ image_tasks' = <<>>
    /\ line_i' = 0
    /\ in_code_block' = FALSE /\ code_lang' = <<>> /\ code_lines' = <<>>
    /\ in_formula_block' = FALSE /\ formula_lines' = <<>>
    /\ pc' = "build_loop"
    /\ UNCHANGED <<cache_vars, now, input_vars, pushes, inline_vars, title_vars,
                   earlier_blocks, earlier_files, token_waits, build_input_vars, token, doc_id,
                   node_token, root_block_id, append_vars, bind_vars, mindmap_result,
                   result, calls>>

\* lines 371-492: one line of the text is classified
build_line ==
    /\ pc = "build_loop"
    /\ line_i < Len(note_text)
    /\ LET st == classify_line(builder_locals, note_text[line_i + 1],
                               screenshot_insert_map, existing_files)
       IN  /\ blocks' = st.blocks
           /\ image_tasks' = st.image_tasks
           /\ in_code_block' = st.in_code_block
           /\ code_lang' = st.code_lang
           /\ code_lines' = st.code_lines
           /\ in_formula_block' = st.in_formula_block
           /\ formula_lines' = st.formula_lines
           /\ screenshot_global_idx' = st.screenshot_global_idx
    /\ line_i' = line_i + 1
    /\ UNCHANGED <<cache_vars, now, pc, input_vars, pushes, inline_vars, title_vars, rerun_vars, token_waits,
                   build_input_vars,
                   screenshot_insert_map, token, doc_id, node_token, root_block_id,
                   append_vars, bind_vars, mindmap_result, result, calls>>

\* lines 494-518: the open blocks are flushed, the paths the plan does not
\* hold are appended, the builder returns
build_finish ==
    /\ pc = "build_loop"
    /\ line_i = Len(note_text)
    /\ LET st == add_local_images(flush_open_blocks(builder_locals),
                                  remaining_paths(screenshot_paths, screenshot_insert_map),
                                  existing_files)
       IN  /\ blocks' = st.blocks
           /\ image_tasks' = st.image_tasks
    /\ pc' = "built"
    /\ UNCHANGED <<cache_vars, now, input_vars, pushes, inline_vars, title_vars, rerun_vars, token_waits,
                   build_input_vars, build_local_vars,
                   token, doc_id, node_token, root_block_id, append_vars, bind_vars,
                   mindmap_result, result, calls>>

NextBuild ==
    \/ build_start(0)
    \/ build_line
    \/ build_finish

SpecBuild == InitBuild /\ [][NextBuild]_vars

\* The builder is called again with the same text, video url and list of
\* paths. It reads the file system anew (p.exists(), p.is_file() at lines
\* 447 and 512), and between the two calls a file of the list may have been
\* removed or written: again at most one path of the list is not a file.
\* The blocks and the files of the first run are kept for comparison.
build_again ==
    /\ pc = "built"
    /\ runs = 1
    /\ earlier_blocks' = blocks
    /\ earlier_files' = existing_files
    /\ \E missing \in 0..Len(screenshot_paths) :
          existing_files' = {screenshot_paths[i] :
                                i \in (1..Len(screenshot_paths)) \ {missing}}
    /\ pc' = "build_enter"
    /\ UNCHANGED <<cache_vars, now, input_vars, pushes, inline_vars, title_vars,
                   uuid_base, runs, token_waits, video_url, screenshot_paths,
                   build_local_vars, push_vars,
                   append_vars, bind_vars, mindmap_result, result, calls>>

\* Two runs of the builder on one text, url and list, each with its own
\* random part of the temporary ids and its own state of the files.
RerunTexts == TextsUpTo(MaxLines - 1) \cup SampleTexts
InitRerun == InitBuildOn(RerunTexts)
NextRerun ==
    \/ \E base \in UuidBases : build_start(base)
    \/ build_line
    \/ build_finish
    \/ build_again

SpecRerun == InitRerun /\ [][NextRerun]_vars

\* ------------------------------------------- _parse_inline_elements

ends_with(s, suffix) ==
    Len(s) >= Len(suffix) /\ SubSeq(s, Len(s) - Len(suffix) + 1, Len(s)) = suffix
\* the length of the longest prefix of s that does not hold the character ch
span_until(s, ch) == IF find(s, ch) = 0 THEN Len(s) ELSE find(s, ch) - 1

\* the link pattern of line 714 at the head of s: "[", a text without "]",
\* "](", a url that starts with http:// or https:// and holds no ")", ")";
\* len is the length of the match, 0 without one
link_match(s) ==
    LET c == find(s, "]")
        rest == drop(s, c)
        scheme == IF starts_with(rest, <<"(", "h", "t", "t", "p", "s", ":", "/", "/">>) THEN 9
                  ELSE IF starts_with(rest, <<"(", "h", "t", "t", "p", ":", "/", "/">>) THEN 8
                  ELSE 0
        e == find(drop(rest, scheme), ")")
    IN  IF s # <<>> /\ Head(s) = "[" /\ c >= 3 /\ scheme > 0 /\ e >= 2
        THEN [len |-> c + scheme + e,
              text |-> SubSeq(s, 2, c - 1),
              url |-> SubSeq(rest, 2, scheme + e - 1)]
        ELSE [len |-> 0, text |-> <<>>, url |-> <<>>]

\* re.sub of line 714: every link, from the left, becomes "text (url)"
RECURSIVE degrade_links(_)
degrade_links(s) ==
    LET m == link_match(s)
    IN  IF s = <<>> THEN <<>>
        ELSE IF m.len > 0
        THEN m.text \o <<" ", "(">> \o m.url \o <<")">> \o degrade_links(drop(s, m.len))
        ELSE <<Head(s)>> \o degrade_links(Tail(s))

\* One alternative of the pattern of lines 748-750 at the head of s: the
\* delimiter d, one or more characters other than the delimiter's character,
\* the delimiter again; the length of the match, 0 without one.
span_match(s, d) ==
    LET inner == IF starts_with(s, d) THEN span_until(drop(s, Len(d)), d[1]) ELSE 0
    IN  IF starts_with(s, d) /\ inner >= 1 /\ starts_with(drop(s, Len(d) + inner), d)
        THEN 2 * Len(d) + inner
        ELSE 0

\* The alternatives in the order of the pattern: code, bold with stars,
\* bold with underscores, italic with a star, italic with an underscore,
\* strikethrough, equation.
InlineDelims ==
    << <<Backtick>>, <<"*", "*">>, <<"_", "_">>, <<"*">>, <<"_">>, <<"~", "~">>, <<"$">> >>
\* the length of the match of the pattern at the head of s, 0 without one
inline_match(s) ==
    LET hits == {k \in 1..Len(InlineDelims) : span_match(s, InlineDelims[k]) > 0}
    IN  IF hits = {} THEN 0
        ELSE span_match(s, InlineDelims[CHOOSE k \in hits : \A h \in hits : k <= h])

InlineItem(kind, text, style) == [kind |-> kind, text |-> text, style |-> style]
inner(tok, k) == SubSeq(tok, k + 1, Len(tok) - k)

\* _parse_inline_token
_parse_inline_token(tok) ==
    IF starts_with(tok, <<Backtick>>) /\ ends_with(tok, <<Backtick>>)
    THEN InlineItem("text", inner(tok, 1), {"inline_code"})
    ELSE IF starts_with(tok, <<"$">>) /\ ends_with(tok, <<"$">>)
    THEN InlineItem("equation", inner(tok, 1), {})
    ELSE IF \/ starts_with(tok, <<"*", "*">>) /\ ends_with(tok, <<"*", "*">>)
            \/ starts_with(tok, <<"_", "_">>) /\ ends_with(tok, <<"_", "_">>)
    THEN InlineItem("text", inner(tok, 2), {"bold"})
    ELSE IF \/ starts_with(tok, <<"*">>) /\ ends_with(tok, <<"*">>)
            \/ starts_with(tok, <<"_">>) /\ ends_with(tok, <<"_">>)
    THEN InlineItem("text", inner(tok, 1), {"italic"})
    ELSE IF starts_with(tok, <<"~", "~">>) /\ ends_with(tok, <<"~", "~">>)
    THEN InlineItem("text", inner(tok, 2), {"strikethrough"})
    ELSE InlineItem("text", tok, {})

\* lines 752-763: the matches of the pattern from the left, each parsed,
\* with the text between them as plain items (plain holds the characters
\* read since the last match)
RECURSIVE inline_scan(_, _)
inline_scan(s, plain) ==
    LET before == IF plain # <<>> THEN <<InlineItem("text", plain, {})>> ELSE <<>>
        k == inline_match(s)
    IN  IF s = <<>> THEN before
        ELSE IF k > 0
        THEN before \o <<_parse_inline_token(SubSeq(s, 1, k))>> \o inline_scan(drop(s, k), <<>>)
        ELSE inline_scan(Tail(s), Append(plain, Head(s)))

\* A test of styles that never finds two alike.
same_style_never(a, b) == FALSE

\* line 774: merged[-1].get("style") == item.get("style")
same_style(a, b) == a.style = b.style

\* line 776: merged[-1]["text"] += item["text"]
merge_text(a, b) == a \o b

\* lines 765-779: equations are kept, empty texts are skipped, a text whose
\* style is that of the text before it is added to it
RECURSIVE merge_runs(_, _)
merge_runs(out, merged) ==
    IF out = <<>> THEN merged
    ELSE LET item == Head(out)
             last == Len(merged)
         IN  IF item.kind = "equation"
             THEN merge_runs(Tail(out), Append(merged, item))
             ELSE IF item.text = <<>>
             THEN merge_runs(Tail(out), merged)
             ELSE IF /\ merged # <<>>
                     /\ merged[last].kind = "text"
                     /\ same_style(merged[last], item)
             THEN merge_runs(Tail(out),
                             [merged EXCEPT ![last].text = merge_text(@, item.text)])
             ELSE merge_runs(Tail(out), Append(merged, item))

\* _tokenize_inline
_tokenize_inline(text) == merge_runs(inline_scan(text, <<>>), <<>>)

\* lines 717-745: one element per token, or one plain run of the text itself
\* when there is no token
elements_of(text, tokens) ==
    IF tokens # <<>> THEN tokens ELSE <<InlineItem("text", text, {})>>

\* The texts the inline parser is run on: up to MaxSegments segments, each
\* a plain character, a delimiter, a span of one of the styles or a link.
LinkSegment ==
    <<"[", "a", "]", "(", "h", "t", "t", "p", ":", "/", "/", "u", "_", "b", "_", ")">>
Segments ==
    { <<"a">>, <<" ">>, <<"*">>, <<"_">>, <<"$">>, <<Backtick>>, <<"~", "~">>,
      <<"*", "a", "*">>, <<"*", "*", "b", "*", "*">>, <<"_", "_", "b", "_", "_">>,
      <<"_", "a", "_">>, <<Backtick, "c", Backtick>>, <<"~", "~", "a", "~", "~">>,
      <<"$", "x", "$">>, LinkSegment }
RECURSIVE concat(_)
concat(seqs) == IF seqs = <<>> THEN <<>> ELSE Head(seqs) \o concat(Tail(seqs))

InitInline ==
    /\ fresh_cache /\ now = 0 /\ pc = "inline_enter"
    /\ config = ReadyConfig /\ note_text = PlainNote /\ mindmap_mermaid = <<>>
    /\ idle_push /\ conc_idle /\ build_idle
    /\ \E k \in 0..MaxSegments : \E segs \in [1..k -> Segments] : inline_text = concat(segs)
    /\ normalized = <<>> /\ elements = <<>>
    /\ title_idle /\ rerun_idle /\ token_idle

\* line 714: the links are degraded
inline_normalize ==
    /\ pc = "inline_enter"
    /\ normalized' = degrade_links(inline_text)
    /\ pc' = "inline_tokens"
    /\ UNCHANGED <<cache_vars, now, input_vars, pushes, build_input_vars, build_local_vars,
                   inline_text, elements, title_vars, rerun_vars, token_waits, push_vars, append_vars, bind_vars,
                   mindmap_result, result, calls>>

\* lines 715-745: the normalized text is tokenized and the elements are made
inline_elements ==
    /\ pc = "inline_tokens"
    /\ elements' = elements_of(inline_text, _tokenize_inline(normalized))
    /\ pc' = "inline_done"
    /\ UNCHANGED <<cache_vars, now, input_vars, pushes, build_input_vars, build_local_vars,
                   inline_text, normalized, title_vars, rerun_vars, token_waits, push_vars, append_vars, bind_vars,
                   mindmap_result, result, calls>>

NextInline ==
    \/ inline_normalize
    \/ inline_elements

SpecInline == InitInline /\ [][NextInline]_vars

\* ------------------------------------------------------------ _build_title

\* The characters of [0-9A-Za-z] the model has.
IdChars == Letters \cup Digits \cup {"B", "V"}

\* line 346: the cut of the whole title
title_cap == 100

\* The default prefix and the default first line (their characters after
\* the first are outside the strings of the module): 11 and 6 characters.
DefaultTitlePrefix ==
    <<"B", "i", "l", "i", "B", "r", "i", "e", "f", "[ji]", "[yao]">>
DefaultTitle == <<"B", "[zhan]", "[shi]", "[pin]", "[zong]", "[jie]">>

\* line 30: self.title_prefix = (title_prefix or default).strip()
title_prefix_of(configured) ==
    strip(IF configured = <<>> THEN DefaultTitlePrefix ELSE configured)

\* lines 328-333: the first line that is not blank, stripped; "" without one
first_non_empty_line(lines) ==
    LET hits == {i \in 1..Len(lines) : strip(lines[i]) # <<>>}
    IN  IF hits = {} THEN <<>>
        ELSE strip(lines[CHOOSE i \in hits : \A h \in hits : i <= h])

\* lines 335-336: re.sub(r"^#+\s*", "", t).strip() when t starts with "#"
strip_heading_marks(t) ==
    IF t # <<>> /\ Head(t) = "#"
    THEN LET rest == drop(t, span(t, {"#"}))
         IN  strip(drop(rest, span(rest, Whitespace)))
    ELSE t

\* line 342: re.search(r"(BV[0-9A-Za-z]+)", video_url): the leftmost "BV"
\* that an identifier character follows, with the longest run of them;
\* "" without a match
bv_id(url) ==
    LET hits == {i \in 1..(Len(url) - 2) :
                    url[i] = "B" /\ url[i + 1] = "V" /\ url[i + 2] \in IdChars}
    IN  IF hits = {} THEN <<>>
        ELSE LET i == CHOOSE k \in hits : \A h \in hits : k <= h
             IN  SubSeq(url, i, i + 1 + span(drop(url, i + 1), IdChars))

\* line 341: "BV" in video_url
contains_bv(url) == \E i \in 1..(Len(url) - 1) : url[i] = "B" /\ url[i + 1] = "V"

\* _build_title
_build_title(lines, url, prefix) ==
    LET bare == strip_heading_marks(first_non_empty_line(lines))
        named == IF bare = <<>> THEN DefaultTitle ELSE bare
        tagged == IF url # <<>> /\ contains_bv(url) /\ bv_id(url) # <<>>
                  THEN named \o <<" ", "[">> \o bv_id(url) \o <<"]">>
                  ELSE named
        whole == prefix \o <<" ", "-", " ">> \o tagged
    IN  SubSeq(whole, 1, Min(Len(whole), title_cap))

\* The inputs of the title: first lines of several lengths on both sides of
\* the cut, bare or behind heading marks, after blank lines or alone; urls
\* without a "BV", with a "BV" nothing follows, with one and with two
\* identifiers; the prefix configured or left to the default.
Xs(n) == [i \in 1..n |-> "x"]
TitleLengths == {1, 60, 80, 90, 120}
TitleNotes ==
    { <<>>, << <<"#">> >>, << <<>>, <<" ", "#", "#", " ", "t", " ">>, <<"a">> >> }
    \cup { << Xs(n) >> : n \in TitleLengths }
    \cup { << <<" ">>, <<"#", " ">> \o Xs(n) >> : n \in TitleLengths }
TitleUrls ==
    { <<>>, <<"u">>, <<"u", "/", "B", "V">>,
      <<"u", "/", "B", "V", "1", "a", "?", "x">>,
      <<"B", "V", "x", "/", "B", "V", "1", "2">> }
ConfiguredPrefixes == { <<>>, <<"p">>, <<" ", "p", "b", " ">> }

InitTitle ==
    /\ fresh_cache /\ now = 0 /\ pc = "title_enter"
    /\ config = ReadyConfig /\ mindmap_mermaid = <<>>
    /\ idle_push /\ conc_idle /\ inline_idle /\ rerun_idle /\ token_idle
    /\ note_text \in TitleNotes
    /\ video_url \in TitleUrls
    /\ screenshot_paths = <<>> /\ existing_files = {}
    /\ line_i = 0 /\ in_code_block = FALSE /\ code_lang = <<>> /\ code_lines = <<>>
    /\ in_formula_block = FALSE /\ formula_lines = <<>>
    /\ screenshot_global_idx = 0 /\ screenshot_insert_map = <<>>
    /\ \E configured \in ConfiguredPrefixes : title_prefix = title_prefix_of(configured)
    /\ title = <<>>

\* title = self._build_title(note_text, video_url)
build_title ==
    /\ pc = "title_enter"
    /\ title' = _build_title(note_text, video_url, title_prefix)
    /\ pc' = "titled"
    /\ UNCHANGED <<cache_vars, now, input_vars, pushes, build_input_vars, build_local_vars,
                   inline_vars, title_prefix, rerun_vars, token_waits, push_vars, append_vars,
                   bind_vars, mindmap_result, result, calls>>

NextTitle == build_title

SpecTitle == InitTitle /\ [][NextTitle]_vars

\* ------------------------------------- push_note invocations interleaved

\* The lifetimes the token endpoint states in the interleaved runs.
ConcExpires == {180}

\* Several invocations on one instance, none started, the cache empty, each
\* called with a note of one paragraph, no screenshot and no diagram source.
InitConc ==
    /\ fresh_cache /\ now = 0 /\ pc = "idle"
    /\ config = ReadyConfig /\ note_text = PlainNote /\ mindmap_mermaid = <<>>
    /\ idle_push /\ side_idle

\* token = await self._get_tenant_access_token(), up to its await: the
\* clock is read, and either the cached token is returned at once or the
\* request is sent and the invocation is suspended.
conc_token_begin(p) ==
    /\ pushes[p].pc = "idle"
    /\ pushes' = [pushes EXCEPT ![p] =
                    IF token_cached(now)
                    THEN [@ EXCEPT !.pc = "create_doc", !.token = _token]
                    ELSE [@ EXCEPT !.pc = "token_wait", !.t0 = now]]
    /\ UNCHANGED <<cache_vars, now, pc, input_vars, build_input_vars,
                   build_local_vars, inline_vars, title_vars, rerun_vars, token_waits,
                   push_vars, append_vars,
                   bind_vars, mindmap_result, result, calls>>

\* The token request of invocation p is answered: the cache is written
\* with the clock read before the request, and the token becomes the local
\* variable of the invocation.
conc_token_end(p, resp) ==
    LET r == token_after_request(pushes[p].t0, resp)
    IN  /\ pushes[p].pc = "token_wait"
        /\ _token' = r.new_token
        /\ _token_expire_at' = r.new_expire_at
        /\ stated' = r.new_stated
        /\ pushes' = [pushes EXCEPT ![p] =
                        IF r.raised THEN [@ EXCEPT !.pc = "raised", !.t0 = 0]
                        ELSE IF r.ret = "" THEN [@ EXCEPT !.pc = "returned", !.t0 = 0]
                        ELSE [@ EXCEPT !.pc = "create_doc", !.token = r.ret,
                                       !.t0 = 0]]
        /\ UNCHANGED <<token_obs, now, pc, input_vars, build_input_vars,
                       build_local_vars, inline_vars, title_vars, rerun_vars, token_waits,
                   push_vars, append_vars,
                       bind_vars, mindmap_result, result, calls>>

\* Time passes until the cached token has expired (the only moment at
\* which the clock changes what an invocation does).
conc_cache_expires ==
    /\ token_cached(now)
    /\ _token_expire_at <= MaxTime
    /\ now' = _token_expire_at
    /\ UNCHANGED <<cache_vars, pc, input_vars, side_vars, push_vars, append_vars,
                   bind_vars, mindmap_result, result, calls>>

\* A request that reads the token from the cache of the instance.
call_token_from_cache(p) == _token

\* headers = {"Authorization": f"Bearer {token}"}: token is the parameter
\* of the helper, for which push_note passes its local variable of line 72.
call_token(p) == pushes[p].token

\* The requests of invocation p that have been answered, with the one now
\* answered and the bearer token it carries. Next to them the invocation
\* record keeps, as cached, the token the cache of the instance held when
\* the latest of them was answered.
conc_sent(p, op) ==
    Append(pushes[p].sent, [op |-> op, tok |-> call_token(p)])

\* The answers the interleaved runs draw: of each endpoint every kind of
\* answer and, with code 0, with and without the value push_note goes on
\* with (the node token, further items and the children play no part here).
ConcCreateDocResponses == {r \in CreateDocResponses : r.node_token = ""}
ConcRootResponses == {r \in RootResponses : Len(r.items) <= 1}
ConcAppendResponses == {r \in AppendResponses(0, 0) : r.children = <<>>}

conc_frame ==
    UNCHANGED <<cache_vars, now, pc, input_vars, build_input_vars,
                build_local_vars, inline_vars, title_vars, rerun_vars, token_waits,
                push_vars, append_vars, bind_vars, mindmap_result, result, calls>>

\* doc_id, node_token = await self._create_wiki_doc(token, title) of
\* invocation p is answered: the exception of line 249, the return of
\* create_doc_failed, or the request of the root block is sent.
conc_create_doc(p, resp) ==
    LET r == _create_wiki_doc(resp)
    IN  /\ pushes[p].pc = "create_doc"
        /\ pushes' = [pushes EXCEPT ![p] =
                        [@ EXCEPT !.sent = conc_sent(p, "create_doc"), !.cached = _token,
                                  !.pc = IF r.raised THEN "raised"
                                         ELSE IF r.doc_id = "" THEN "returned"
                                         ELSE "root"]]
        /\ conc_frame

\* root_block_id = await self._get_document_root_block_id(token, doc_id) of
\* invocation p is answered: the exception of line 271, the return of
\* get_root_block_failed, or the builder runs (the note gives one block)
\* and the one batch of _append_blocks is sent.
conc_get_root(p, resp) ==
    LET r == _get_document_root_block_id(resp)
    IN  /\ pushes[p].pc = "root"
        /\ pushes' = [pushes EXCEPT ![p] =
                        [@ EXCEPT !.sent = conc_sent(p, "root"), !.cached = _token,
                                  !.pc = IF r.raised THEN "raised"
                                         ELSE IF r.root = "" THEN "returned"
                                         ELSE "append"]]
        /\ conc_frame

\* The batch of invocation p is answered: the exception of line 309, the
\* return of append_blocks_failed, or the loop is exhausted and push_note
\* returns its success. Nothing is requested in between: _bind_images
\* returns at line 809 without a media task, as does
\* _try_insert_mindmap_whiteboard at line 945 without a diagram source.
conc_append(p, resp) ==
    /\ pushes[p].pc = "append"
    /\ pushes' = [pushes EXCEPT ![p] =
                    [@ EXCEPT !.sent = conc_sent(p, "append"), !.cached = _token,
                              !.pc = IF resp.kind = "malformed" THEN "raised"
                                     ELSE "returned"]]
    /\ conc_frame

NextConc ==
    \/ conc_cache_expires
    \/ \E p \in Invocations : conc_token_begin(p)
    \/ \E p \in Invocations :
          \E resp \in TokenResponses(TokenValues, ConcExpires) : conc_token_end(p, resp)
    \/ \E p \in Invocations : \E resp \in ConcCreateDocResponses : conc_create_doc(p, resp)
    \/ \E p \in Invocations : \E resp \in ConcRootResponses : conc_get_root(p, resp)
    \/ \E p \in Invocations : \E resp \in ConcAppendResponses : conc_append(p, resp)

SpecConc == InitConc /\ [][NextConc]_vars

\* ================================================================ claims

StepRank(op) ==
    CASE op = "token" -> 1
      [] op = "create_doc" -> 2
      [] op = "root" -> 3
      [] op = "append" -> 4
      [] op \in {"download", "upload", "patch"} -> 5
      [] OTHER -> 6

\* A step of the pipeline succeeded: the response has code 0 and carries
\* the datum the step is made for.
CallSucceeded(c) ==
    /\ c.out = "ok"
    /\ c.op \in {"token", "create_doc", "root"} => c.ret # ""

\* A call of one of the four steps the pipeline depends on, failed.
FatalCall(c) == StepRank(c.op) <= 4 /\ ~CallSucceeded(c)

ErrorOfOp(op) ==
    CASE op = "token" -> "token_failed"
      [] op = "create_doc" -> "create_doc_failed"
      [] op = "root" -> "get_root_block_failed"
      [] op = "append" -> "append_blocks_failed"
      [] OTHER -> "none"

LastCall == calls[Len(calls)]
AppendCalls == SelectSeq(calls, LAMBDA c : c.op = "append")
CallsOfTask(t) == SelectSeq(calls, LAMBDA c : c.task = t)

\* C1: the remote calls of a push are issued in the order token exchange,
\* document creation, root-block lookup, batch appends, media binding,
\* diagram insertion; a call of one of the first four steps that failed is
\* the last call of the push; a push that returns a failure after its two
\* local checks names the step of that failed call, or build_blocks_failed
\* when every call succeeded and the block list is empty, in which case no
\* batch was sent; and a push whose last call failed so never returns success.
C1_StepOrderAndErrorCode ==
    /\ \A a, b \in 1..Len(calls) :
          a < b => StepRank(calls[a].op) <= StepRank(calls[b].op)
    /\ \A a \in 1..Len(calls) : FatalCall(calls[a]) => a = Len(calls)
    /\ \A a \in 1..Len(calls) : StepRank(calls[a].op) >= 4 => blocks # <<>>
    /\ (pc = "returned" /\ is_config_ready /\ ~note_blank /\ ~result.success) =>
          /\ calls # <<>>
          /\ IF FatalCall(LastCall)
             THEN result.error = ErrorOfOp(LastCall.op)
             ELSE /\ result.error = "build_blocks_failed"
                  /\ LastCall.op = "root"
                  /\ blocks = <<>>
    /\ (pc = "returned" /\ calls # <<>> /\ FatalCall(LastCall)) => ~result.success

\* C1 witness: the second batch of a push failed and the push returned
\* append_blocks_failed after token, document, root and one good batch.
C1_Witness ==
    /\ pc = "returned"
    /\ result.error = "append_blocks_failed"
    /\ Len(calls) = 5
    /\ calls[1].op = "token" /\ calls[5].op = "append" /\ calls[5].out = "nonzero"

\* The document created, as the creation response gave it.
CreatedAt == {a \in 1..Len(calls) :
                 calls[a].op = "create_doc" /\ CallSucceeded(calls[a])}
UrlOfNode(nt) == IF nt = "" THEN <<>> ELSE <<"https://", "feishu", ".cn/wiki/", nt>>

\* C2: a push that returns a failure after its document was created
\* returns success = false with the doc_id of the creation response and
\* the URL built from the node token of that response.
C2_FailureKeepsDocument ==
    (pc = "returned" /\ ~result.success /\ CreatedAt # {}) =>
        \A a \in CreatedAt :
            /\ result.error \in {"get_root_block_failed", "build_blocks_failed",
                                 "append_blocks_failed"}
            /\ result.has_doc
            /\ result.doc_id = calls[a].ret
            /\ result.doc_id # ""
            /\ result.node_token = calls[a].blk
            /\ result.doc_url = UrlOfNode(calls[a].blk)

\* C2 witness: the second batch failed and the result carries the document.
C2_Witness ==
    /\ pc = "returned" /\ ~result.success
    /\ Len(blocks) = chunk_size + 1
    /\ Len(AppendCalls) = 2
    /\ AppendCalls[1].out = "ok" /\ AppendCalls[2].out = "exc"
    /\ result.doc_id = "doc1" /\ result.doc_url # <<>>

\* C3: every batch but the last one sent was answered with code 0, so a
\* batch is sent only after all batches before it succeeded and none is
\* sent after a failed one; and _append_blocks returns False when the last
\* batch failed by an exception of the request or a non-zero code, and
\* returns True only when every batch succeeded.
C3_BatchesStopAtFailure ==
    /\ \A a \in 1..Len(AppendCalls) :
          a < Len(AppendCalls) => AppendCalls[a].out = "ok"
    /\ \A a \in 1..Len(AppendCalls) :
          AppendCalls[a].out \in {"exc", "nonzero"} => append_ok = "false"
    /\ \A a \in 1..Len(AppendCalls) :
          AppendCalls[a].out # "ok" => append_ok \in {"false", "raised"}
    /\ append_ok = "false" => AppendCalls[Len(AppendCalls)].out \in {"exc", "nonzero"}

\* C3 witness: of three batches the second failed; the third was never sent.
C3_Witness ==
    /\ append_ok = "false"
    /\ Len(blocks) > 2 * 30
    /\ Len(AppendCalls) = 2
    /\ AppendCalls[2].out = "nonzero"

RECURSIVE ConcatChunks(_)
ConcatChunks(cs) ==
    IF cs = <<>> THEN <<>> ELSE Head(cs).chunk \o ConcatChunks(Tail(cs))

\* C4: the k-th request (k from 0) carries index 30*k and the blocks at
\* positions 30*k .. min(n, 30*k + 30) - 1 in order; when all batches
\* succeeded exactly ceil(n/30) requests were sent and their chunks,
\* concatenated, are the block list.
C4_BatchesPartitionBlocks ==
    /\ \A k \in 1..Len(AppendCalls) :
          /\ AppendCalls[k].idx = 30 * (k - 1)
          /\ AppendCalls[k].chunk =
                [j \in 1..(Min(Len(blocks), 30 * k) - 30 * (k - 1)) |->
                    blocks[30 * (k - 1) + j]]
    /\ append_ok = "true" =>
          /\ Len(AppendCalls) = (Len(blocks) + 29) \div 30
          /\ ConcatChunks(AppendCalls) = blocks

\* C4 witness: 65 blocks went out in three batches at 0, 30 and 60.
C4_Witness ==
    /\ append_ok = "true"
    /\ Len(blocks) = 65
    /\ Len(AppendCalls) = 3
    /\ AppendCalls[1].idx = 0 /\ AppendCalls[2].idx = 30 /\ AppendCalls[3].idx = 60
    /\ Len(AppendCalls[3].chunk) = 5

\* C5: once _append_blocks returned True, push_note raises no exception
\* and, when it returns, returns success = true.
C5_MediaAndDiagramNeverFail ==
    append_ok = "true" =>
        /\ pc # "raised"
        /\ pc = "returned" => result.success

\* C5 witness: a push returned success although a media task failed and
\* the diagram step failed.
C5_Witness ==
    /\ pc = "returned" /\ result.success
    /\ result.images_fail > 0
    /\ result.mindmap.attempted /\ ~result.mindmap.skipped /\ ~result.mindmap.success

\* C6: push_note never raises, whatever the remote API answers.
C6_NeverRaises == pc # "raised"

\* C7: when _bind_images returns, success_count + failure_count is the
\* number of media tasks; before, every task the loops passed is counted
\* or put aside exactly once; and no task has more than one download, one
\* upload or one patch request.
C7_EveryTaskCountedOnce ==
    /\ pc = "bind_resolved" =>
          ok_count + fail_count + Len(unresolved) = task_idx - 1
    /\ pc = "bind_fallback" =>
          ok_count + fail_count = Len(image_tasks) - Len(unresolved) + fb_idx - 1
    /\ pc = "mindmap" => ok_count + fail_count = Len(image_tasks)
    /\ \A t \in 1..Len(image_tasks) :
          \A op \in {"download", "upload", "patch"} :
              Len(SelectSeq(CallsOfTask(t), LAMBDA c : c.op = op)) <= 1

\* C7 witness: the first of two tasks failed at its upload, the second
\* was still uploaded and patched.
C7_Witness ==
    /\ pc = "mindmap"
    /\ Len(image_tasks) = 2
    /\ ok_count = 1 /\ fail_count = 1
    /\ \E c \in {calls[a] : a \in 1..Len(calls)} : c.task = 1 /\ c.op = "upload"
    /\ ~\E c \in {calls[a] : a \in 1..Len(calls)} : c.task = 1 /\ c.op = "patch"
    /\ \E c \in {calls[a] : a \in 1..Len(calls)} : c.task = 2 /\ c.op = "patch"

\* The tasks without id relation, in task order; the real ids the id
\* relations give to tasks; the confirmed ids that are none of those.
TaskIndexes == [t \in 1..Len(image_tasks) |-> t]
UnresolvedTasks ==
    SelectSeq(TaskIndexes, LAMBDA t : relations[image_tasks[t].temp_id] = "")
ResolvedBlocks ==
    {relations[image_tasks[t].temp_id] : t \in 1..Len(image_tasks)} \ {""}
RemainingIds ==
    SelectSeq(appended_image_block_ids, LAMBDA b : b \notin ResolvedBlocks)
BindCalls == {calls[a] : a \in {x \in 1..Len(calls) : StepRank(calls[x].op) = 5}}

\* C8: every upload and patch request of the j-th task without id relation
\* names the j-th confirmed id that is no task's resolved block; and when
\* _bind_images has returned, every such task with a j-th id, whose source
\* is a URL, has made its download.
C8_FallbackPairsInOrder ==
    /\ \A c \in BindCalls :
          (c.op \in {"upload", "patch"} /\ relations[image_tasks[c.task].temp_id] = "")
          => \E j \in 1..Min(Len(UnresolvedTasks), Len(RemainingIds)) :
                /\ UnresolvedTasks[j] = c.task
                /\ c.blk = RemainingIds[j]
    /\ pc = "mindmap" =>
          \A j \in 1..Min(Len(UnresolvedTasks), Len(RemainingIds)) :
              image_tasks[UnresolvedTasks[j]].type = "url" =>
                  \E c \in BindCalls : c.task = UnresolvedTasks[j] /\ c.op = "download"

\* C8 witness: two tasks, the first resolved to blkA, two confirmed ids
\* blkA and blkB: the second task was uploaded and patched against blkB.
C8_Witness ==
    /\ pc = "mindmap"
    /\ Len(image_tasks) = 2
    /\ relations[1] = "blkA" /\ relations[2] = ""
    /\ appended_image_block_ids = <<"blkA", "blkB">>
    /\ \E c \in BindCalls : c.task = 2 /\ c.op = "patch" /\ c.blk = "blkB"
    /\ ok_count = 2

\* The task at position t has a block to bind to: its resolved block, or
\* a remaining confirmed id at its place among the unresolved tasks.
HasCandidate(t) ==
    \/ relations[image_tasks[t].temp_id] # ""
    \/ \E j \in 1..Min(Len(UnresolvedTasks), Len(RemainingIds)) : UnresolvedTasks[j] = t
HasRequest(t) == \E c \in BindCalls : c.task = t

\* C9 as stated: when _bind_images has returned, every task that has a
\* candidate block made a network request.
C9_Original ==
    pc = "mindmap" =>
        \A t \in 1..Len(image_tasks) : HasCandidate(t) => HasRequest(t)

\* C9 amended: when _bind_images has returned, a task made no network
\* request exactly when it has no candidate block, or it is a local-path
\* task whose file was absent, unreadable or empty when it was bound; a
\* URL task with a candidate block always made its download request.
C9_NoRequestOnlyWithoutBlockOrFile ==
    pc = "mindmap" =>
        \A t \in 1..Len(image_tasks) :
            ~HasRequest(t) <=>
                \/ ~HasCandidate(t)
                \/ /\ image_tasks[t].type = "local"
                   /\ task_src[t] \in {"absent", "error", "empty"}

\* C9 witness: a local task with a resolved block and an empty file was
\* counted as a failure without any request.
C9_Witness ==
    /\ pc = "mindmap"
    /\ Len(image_tasks) >= 1
    /\ image_tasks[1].type = "local"
    /\ relations[1] # ""
    /\ task_src[1] = "empty"
    /\ ~HasRequest(1)
    /\ fail_count >= 1

\* A call of _get_tenant_access_token tests the cache: the clock stands
\* still, no waiting call is answered, and the call is observed at the
\* current time. (stated.at is the clock the call that obtained the cached
\* token read before its request.)
IsTokenCall ==
    /\ now' = now
    /\ Len(token_waits') >= Len(token_waits)
    /\ token_obs'.called /\ token_obs'.at = now
Remaining == stated.at + stated.expire - now

\* C10 as stated: a call answers from the cache only while more than 120
\* seconds remain before the stated expiry, and with a token cached and
\* 120 seconds or less remaining it requests a new one.
C10_Original ==
    [][(IsTokenCall /\ _token # "") =>
          (~token_obs'.requested <=> Remaining > 120)]_vars

\* C10 amended: for a cached token whose stated expiry is 180 seconds or
\* more, a call answers from the cache exactly while more than 120 seconds
\* remain before that expiry; for a stated expiry below 180 seconds it
\* answers from the cache exactly during the 60 seconds after the token
\* was obtained; in every other case it requests a new token.
C10_CacheWindow ==
    [][(IsTokenCall /\ _token # "") =>
          (~token_obs'.requested <=>
              IF stated.expire >= 180 THEN Remaining > 120
              ELSE now - stated.at < 60)]_vars

\* C10 witness: a token stated to last 300 seconds was answered from the
\* cache 150 seconds after it was obtained.
C10_Witness ==
    /\ _token # ""
    /\ stated.expire = 300
    /\ token_obs.called /\ ~token_obs.requested
    /\ token_obs.at = stated.at + 150

\* C11: with push_note invocations interleaved at their awaits and the
\* cached token refreshed meanwhile, the requests of one invocation all
\* carry the bearer token its first request carried, and that is a token.
C11_OneTokenPerInvocation ==
    \A p \in Invocations :
        \A j \in 1..Len(pushes[p].sent) :
            /\ pushes[p].sent[j].tok = pushes[p].sent[1].tok
            /\ pushes[p].sent[j].tok \in TokenValues

\* Invocation 1 has returned after its three requests, all with tokA, the
\* token the cache held at its token step; when the last of them was
\* answered the cache held tokB, the refresh of invocation 2, which sends
\* tokB.
C11_Witness ==
    /\ pushes[1].pc = "returned" /\ Len(pushes[1].sent) = 3
    /\ \A j \in 1..3 : pushes[1].sent[j].tok = "tokA"
    /\ pushes[1].cached = "tokB"
    /\ pushes[2].pc = "root"
    /\ pushes[2].sent[1].tok = "tokB"

\* The request a call makes: the endpoint (the root lookup of the diagram
\* step is the same request as the root lookup of the pipeline), the batch
\* index and the media task.
RequestOf(c) == <<IF c.op = "wb_root" THEN "root" ELSE c.op, c.idx, c.task>>

\* C12: within one invocation no request is issued twice, except the
\* root lookup, which the diagram step issues once more after the first
\* one succeeded; so a request that failed is never issued again, and each
\* media task gets at most one download, one upload and one patch request.
C12_NoRetry ==
    /\ \A a, b \in 1..Len(calls) :
          (a < b /\ RequestOf(calls[a]) = RequestOf(calls[b])) =>
              /\ calls[a].op = "root" /\ calls[b].op = "wb_root"
              /\ CallSucceeded(calls[a])
    /\ \A t \in 1..Len(image_tasks) :
          \A op \in {"download", "upload", "patch"} :
              Len(SelectSeq(CallsOfTask(t), LAMBDA c : c.op = op)) <= 1

\* C12 witness: the upload of task 1 failed (no patch followed), task 2
\* was bound, and the push returned with one upload request for task 1.
C12_Witness ==
    /\ pc = "returned" /\ result.success
    /\ Len(image_tasks) = 2
    /\ result.images_fail = 1 /\ result.images_ok = 1
    /\ Len(SelectSeq(CallsOfTask(1), LAMBDA c : c.op = "upload")) = 1
    /\ Len(SelectSeq(CallsOfTask(1), LAMBDA c : c.op = "patch")) = 0
    /\ Len(SelectSeq(CallsOfTask(2), LAMBDA c : c.op = "patch")) = 1

\* One of the three configuration values is missing.
ConfigMissing ==
    config.app_id = <<>> \/ config.app_secret = <<>> \/ config.space_id = <<>>

\* The note is empty or holds whitespace only.
NoteIsBlank ==
    \A k \in 1..Len(note_text) :
        \A j \in 1..Len(note_text[k]) : note_text[k][j] \in {" ", "\t"}

\* C13: with the app id, the app secret or the space id missing, push_note
\* makes no remote call and returns success = false with error
\* config_incomplete, whatever the note and the diagram source are.
C13_ConfigIncomplete ==
    ConfigMissing =>
        /\ calls = <<>>
        /\ pc \in {"idle", "returned"}
        /\ pc = "returned" => (~result.success /\ result.error = "config_incomplete")

\* C13 witness: only the space id is missing, the note and the diagram
\* source are not blank, and the push returned config_incomplete.
C13_Witness ==
    /\ pc = "returned"
    /\ config.app_id # <<>> /\ config.app_secret # <<>> /\ config.space_id = <<>>
    /\ ~NoteIsBlank /\ mindmap_mermaid = <<"m">>
    /\ result.error = "config_incomplete" /\ calls = <<>>

\* C14 as stated: every push with a blank note returns empty_note and
\* makes no remote call.
C14_Original ==
    (pc = "returned" /\ NoteIsBlank) =>
        (~result.success /\ result.error = "empty_note" /\ calls = <<>>)

\* C14 amended: a push with a blank note makes no remote call; it returns
\* success = false with error empty_note when the configuration is
\* complete, and with error config_incomplete otherwise.
C14_EmptyNote ==
    NoteIsBlank =>
        /\ calls = <<>>
        /\ pc \in {"idle", "returned"}
        /\ pc = "returned" =>
              /\ ~result.success
              /\ result.error = IF ConfigMissing THEN "config_incomplete"
                                 ELSE "empty_note"

\* C14 witness: a configured push of a note made of a line break, a tab and
\* a space returned empty_note without a remote call.
C14_Witness ==
    /\ pc = "returned" /\ ~ConfigMissing
    /\ note_text = << <<>>, <<"\t", " ">> >>
    /\ result.error = "empty_note" /\ calls = <<>>

\* The requests of the diagram step, and a blank diagram source.
MindmapCalls == SelectSeq(calls, LAMBDA c : c.op \in {"wb_root", "wb_create", "mermaid"})
MermaidIsBlank == \A j \in 1..Len(mindmap_mermaid) : mindmap_mermaid[j] \in {" ", "\t"}

\* C15: the diagram step makes requests only for a diagram source that is
\* not blank; no exception leaves it; and when the push returns success
\* its sub-result has attempted = true, skipped = true exactly when the
\* source was blank, and success = true exactly when the whiteboard block
\* was created with a board token and the render request succeeded.
C15_DiagramSubResult ==
    /\ MermaidIsBlank => MindmapCalls = <<>>
    /\ pc = "raised" => MindmapCalls = <<>>
    /\ (pc = "returned" /\ result.success) =>
          /\ result.mindmap.attempted
          /\ result.mindmap.skipped <=> MermaidIsBlank
          /\ result.mindmap.success <=>
                /\ \E a \in 1..Len(calls) :
                      calls[a].op = "wb_create" /\ calls[a].out = "child"
                /\ \E a \in 1..Len(calls) :
                      calls[a].op = "mermaid" /\ calls[a].out = "ok"
    /\ (pc = "returned" /\ ~result.success) => MindmapCalls = <<>>

\* C15 witness: the response to the whiteboard creation was no JSON object;
\* the exception became success = false and the push returned success.
C15_Witness ==
    /\ pc = "returned" /\ result.success
    /\ Len(MindmapCalls) = 2
    /\ MindmapCalls[2].op = "wb_create" /\ MindmapCalls[2].out = "malformed"
    /\ ~result.mindmap.success /\ ~result.mindmap.skipped
    /\ result.mindmap.reason = "whiteboard_exception"

\* The line the builder reads next, stripped; the builder is in its loop
\* with a line left.
ReadingLine == pc = "build_loop" /\ line_i < Len(note_text)
NextStripped == strip(note_text[line_i + 1])

\* C16: the classifier's modes do not nest: at every line it is in at most
\* one of in-fenced-code and in-block-equation; a fence line read inside a
\* block equation is kept as literal equation content and opens no code
\* block; a formula mark read inside a fenced code block is kept as literal
\* code content and opens no equation.
C16_ModesDoNotNest ==
    /\ [](~(in_code_block /\ in_formula_block))
    /\ [][(ReadingLine /\ in_formula_block /\ ~in_code_block
              /\ fence_match(NextStripped) /\ line_i' = line_i + 1) =>
             /\ ~in_code_block'
             /\ formula_lines' = Append(formula_lines, note_text[line_i + 1])]_vars
    /\ [][(ReadingLine /\ in_code_block /\ ~in_formula_block
              /\ NextStripped = FormulaMark /\ line_i' = line_i + 1) =>
             /\ ~in_formula_block'
             /\ code_lines' = Append(code_lines, note_text[line_i + 1])]_vars

\* The plan is computed; the builder has returned.
PlanReady == pc \in {"build_loop", "built"}
Built == pc = "built"

\* The lines of the text that match the heading pattern, those of level 2
\* or deeper, and the number of either kind before line i.
HeadingLike(i) == heading_level(strip(note_text[i])) > 0
DeepHeading(i) == heading_level(strip(note_text[i])) >= 2
DeepHeadingLines == {i \in 1..Len(note_text) : DeepHeading(i)}
SeenBefore(i) == Cardinality({j \in 1..(i - 1) : HeadingLike(j)})
DeepBefore(i) == Cardinality({j \in 1..(i - 1) : DeepHeading(j)})

\* The paths of a list that are existing files, the local tasks of a path
\* and the placeholder blocks of a temporary id.
Existing(paths) == SelectSeq(paths, LAMBDA p : p \in existing_files)
LocalTasksOf(p) ==
    {j \in 1..Len(image_tasks) :
        image_tasks[j].type = "local" /\ image_tasks[j].value = p}
PlaceholdersOf(t) ==
    {j \in 1..Len(blocks) : blocks[j].elem = "image" /\ blocks[j].temp_id = t}

\* C17: for every markdown text, every supplied asset that is an existing
\* file yields exactly one image placeholder and one media task in the
\* blocks the builder returns.
C17_EveryAssetPlaced ==
    Built =>
        \A i \in 1..Len(screenshot_paths) :
            screenshot_paths[i] \in existing_files =>
                /\ Cardinality(LocalTasksOf(screenshot_paths[i])) = 1
                /\ \A j \in LocalTasksOf(screenshot_paths[i]) :
                      Cardinality(PlaceholdersOf(image_tasks[j].temp_id)) = 1

\* The image placeholders of the paths of a list, with temporary ids from
\* first on, and the local tasks that go with them.
PlaceholdersFor(paths, first) ==
    [j \in 1..Len(paths) |-> _image_block(first + j - 1)]
TasksFor(paths, first) ==
    [j \in 1..Len(paths) |->
        [temp_id |-> first + j - 1, type |-> "local", value |-> paths[j]]]

\* C18: when the builder reads, outside a code block and a block equation,
\* a heading of level 2 or deeper to which the plan assigned assets (the
\* plan's key is the index the planner computed for that line), it writes the heading block and directly after it the
\* placeholders of exactly the assigned assets that exist, in the assigned
\* order, each with its task; on every other line it writes no placeholder
\* of an asset.
C18_PlaceholdersFollowHeading ==
    [][(ReadingLine /\ line_i' = line_i + 1) =>
          LET assigned == IF /\ DeepHeading(line_i + 1)
                             /\ ~in_code_block /\ ~in_formula_block
                          THEN Existing(map_get(screenshot_insert_map,
                                                SeenBefore(line_i + 1)))
                          ELSE <<>>
              first == fresh_temp_id(image_tasks)
          IN  IF assigned # <<>>
              THEN /\ blocks' = blocks
                                \o <<_heading_block(heading_level(NextStripped),
                                                    heading_text(NextStripped))>>
                                \o PlaceholdersFor(assigned, first)
                   /\ image_tasks' = image_tasks \o TasksFor(assigned, first)
              ELSE \A j \in 1..Len(image_tasks') :
                      image_tasks'[j].type = "local" => j <= Len(image_tasks)]_vars

\* C19 as stated: the keys of the placement map count only the headings of
\* level 2 or deeper, and a text of one level-1 heading and two level-2
\* headings with two paths has the map {0: [path1], 1: [path2]}.
C19_Original ==
    PlanReady =>
        /\ (screenshot_paths # <<>> =>
               DOMAIN screenshot_insert_map = {DeepBefore(i) : i \in DeepHeadingLines})
        /\ (/\ note_text = << <<"#", " ", "a">>, <<"#", "#", " ", "b">>,
                              <<"#", "#", " ", "b">> >>
            /\ screenshot_paths = <<"p1", "p2">>) =>
               /\ DOMAIN screenshot_insert_map = {0, 1}
               /\ screenshot_insert_map[0] = <<"p1">>
               /\ screenshot_insert_map[1] = <<"p2">>

\* C19: the keys of the placement map are the 0-based indices, among all
\* the lines that match the heading pattern (of every level), of those of
\* level 2 or deeper; a text of one level-1 heading and two level-2
\* headings with two paths has the map {1: [path1], 2: [path2]}.
C19_KeysCountAllHeadings ==
    PlanReady =>
        /\ (screenshot_paths # <<>> =>
               DOMAIN screenshot_insert_map = {SeenBefore(i) : i \in DeepHeadingLines})
        /\ (screenshot_paths = <<>> => DOMAIN screenshot_insert_map = {})
        /\ (/\ note_text = << <<"#", " ", "a">>, <<"#", "#", " ", "b">>,
                              <<"#", "#", " ", "b">> >>
            /\ screenshot_paths = <<"p1", "p2">>) =>
               /\ DOMAIN screenshot_insert_map = {1, 2}
               /\ screenshot_insert_map[1] = <<"p1">>
               /\ screenshot_insert_map[2] = <<"p2">>

\* C19 witness: the plan of the text of one level-1 and two level-2
\* headings with two paths has been computed; its keys are 1 and 2.
C19_Witness ==
    /\ PlanReady
    /\ note_text = << <<"#", " ", "a">>, <<"#", "#", " ", "b">>, <<"#", "#", " ", "b">> >>
    /\ screenshot_paths = <<"p1", "p2">>
    /\ 0 \notin DOMAIN screenshot_insert_map
    /\ 2 \in DOMAIN screenshot_insert_map

\* The position of a path in the list of paths.
PathIndex(p) == CHOOSE i \in 1..Len(screenshot_paths) : screenshot_paths[i] = p
\* The places (key, position) of the plan that hold the path p.
PlacesOf(p) ==
    {<<k, j>> \in (DOMAIN screenshot_insert_map) \X (1..MaxShots + 1) :
        j <= Len(screenshot_insert_map[k]) /\ screenshot_insert_map[k][j] = p}

\* C20: for every text with at least one heading of level 2 or deeper and
\* every list of assets (those no longer than the number of such headings
\* among them), the placement map holds each asset in exactly one place of
\* exactly one list, and every list keeps the input order of the assets.
C20_EachAssetOnce ==
    (PlanReady /\ DeepHeadingLines # {}) =>
        /\ \A i \in 1..Len(screenshot_paths) :
              Cardinality(PlacesOf(screenshot_paths[i])) = 1
        /\ \A k \in DOMAIN screenshot_insert_map :
              \A a, b \in 1..Len(screenshot_insert_map[k]) :
                  a < b => PathIndex(screenshot_insert_map[k][a])
                               < PathIndex(screenshot_insert_map[k][b])

\* C20 witness: three headings of level 2 and three assets, one on each.
C20_Witness ==
    /\ PlanReady
    /\ Cardinality(DeepHeadingLines) = 3
    /\ Len(screenshot_paths) = 3
    /\ \A k \in DOMAIN screenshot_insert_map : Len(screenshot_insert_map[k]) = 1
    /\ Cardinality(DOMAIN screenshot_insert_map) = 3

\* The heading slot (0-based, among the keys of the plan in increasing
\* order) whose list holds the path p.
SlotOfPath(p) ==
    LET k == CHOOSE key \in DOMAIN screenshot_insert_map :
                 \E j \in 1..Len(screenshot_insert_map[key]) :
                     screenshot_insert_map[key][j] = p
    IN  Cardinality({key \in DOMAIN screenshot_insert_map : key < k})
Abs(x) == IF x < 0 THEN -x ELSE x

\* C21: with N >= 2 assets and M >= 2 headings of level 2 or deeper, the
\* asset at 0-based position i is on the heading slot round(i*(M-1)/(N-1)),
\* the nearest integer, a half going to the even one; the slot is within
\* 0..M-1, does not decrease with i, is 0 for the first asset and M-1 for
\* the last; with exactly one such heading every asset is on it.
C21_SlotIsRounded ==
    LET n == Len(screenshot_paths)
        m == Cardinality(DeepHeadingLines)
        slot(i) == SlotOfPath(screenshot_paths[i + 1])
    IN  PlanReady =>
          /\ (n >= 2 /\ m >= 2) =>
                /\ \A i \in 0..(n - 1) :
                      /\ 2 * Abs(i * (m - 1) - slot(i) * (n - 1)) <= n - 1
                      /\ (2 * Abs(i * (m - 1) - slot(i) * (n - 1)) = n - 1
                             => slot(i) % 2 = 0)
                      /\ slot(i) \in 0..(m - 1)
                /\ \A i, j \in 0..(n - 1) : i < j => slot(i) <= slot(j)
                /\ slot(0) = 0
                /\ slot(n - 1) = m - 1
          /\ (n >= 1 /\ m = 1) =>
                \A k \in DOMAIN screenshot_insert_map :
                    screenshot_insert_map[k] = screenshot_paths

\* C21 witness: three assets on four headings; the second asset, at 1.5,
\* is on the third heading.
C21_Witness ==
    /\ PlanReady
    /\ Len(screenshot_paths) = 3
    /\ Cardinality(DeepHeadingLines) = 4
    /\ SlotOfPath(screenshot_paths[1]) = 0
    /\ SlotOfPath(screenshot_paths[2]) = 2
    /\ SlotOfPath(screenshot_paths[3]) = 3

\* The builder returns: the step of lines 494-518, and the blocks it adds.
Finishing == pc = "build_loop" /\ line_i = Len(note_text) /\ pc' = "built"
FinishBlocks == SubSeq(blocks', Len(blocks) + 1, Len(blocks'))
FinishCodeBlocks == SelectSeq(FinishBlocks, LAMBDA b : b.elem = "code")

\* The last fence line of the text (the opening one when the text ends
\* inside a code block), and the lines after it joined and stripped.
LastFenceLine ==
    CHOOSE i \in 1..Len(note_text) :
        /\ fence_match(strip(note_text[i]))
        /\ \A j \in (i + 1)..Len(note_text) : ~fence_match(strip(note_text[j]))
OpenCodeText == join_strip(SubSeq(note_text, LastFenceLine + 1, Len(note_text)))
OpenCodeLang == strip(fence_lang(strip(note_text[LastFenceLine])))

\* C22 as stated: for every text that ends inside a code block, the builder
\* writes at its end exactly one code block, holding the lines after the
\* opening fence.
C22_Original ==
    [][(Finishing /\ in_code_block) =>
          FinishCodeBlocks = <<_code_block(OpenCodeText, OpenCodeLang)>>]_vars

\* C22: for every text that ends inside a code block with at least one
\* line after the opening fence that is not blank, the builder writes at
\* its end exactly one code block, holding those lines joined and stripped
\* of the whitespace around them, with the language of the opening fence;
\* when no line or only blank lines follow the fence it writes no code block.
C22_UnclosedFenceFlushed ==
    [][(Finishing /\ in_code_block) =>
          FinishCodeBlocks = IF OpenCodeText # <<>>
                             THEN <<_code_block(OpenCodeText, OpenCodeLang)>>
                             ELSE <<>>]_vars

\* C22 witness: the text with a fence opened with a language and three
\* lines after it has been built; its last block is the code block.
C22_Witness ==
    /\ Built /\ in_code_block
    /\ blocks # <<>>
    /\ blocks[Len(blocks)].elem = "code"
    /\ Len(blocks[Len(blocks)].content) = 3
    /\ blocks[Len(blocks)].lang = <<"p", "y">>

\* A line that is a marker and nothing else: one to six "#", a ">", a "-",
\* a "*", or digits followed by a dot.
MarkerOnly(s) ==
    \/ Len(s) \in 1..6 /\ span(s, {"#"}) = Len(s)
    \/ s \in {<<">">>, <<"-">>, <<"*">>}
    \/ Len(s) >= 2 /\ span(s, Digits) = Len(s) - 1 /\ s[Len(s)] = "."

\* C23: a line read outside a code block and a block equation that consists
\* only of a heading marker, a quote marker or a list marker produces no
\* block at all.
C23_MarkerOnlyDropped ==
    [][(ReadingLine /\ line_i' = line_i + 1
           /\ ~in_code_block /\ ~in_formula_block /\ MarkerOnly(NextStripped)) =>
          blocks' = blocks]_vars

\* The inline parser has returned; the texts of its runs, concatenated.
InlineDone == pc = "inline_done"
RunTexts == concat([j \in 1..Len(elements) |-> elements[j].text])

\* C24 as stated: no two consecutive runs of the sequence the tokenizer
\* returns have the same style set.
C24_Original ==
    InlineDone =>
        \A j \in 1..(Len(elements) - 1) : elements[j].style # elements[j + 1].style

\* C24: no two consecutive text runs of the sequence the tokenizer returns
\* have the same style set; an equation run is never merged, so it may
\* stand next to another equation or to a plain text run, whose style set
\* (the empty one) is its own.
C24_TextRunsMerged ==
    InlineDone =>
        \A j \in 1..(Len(elements) - 1) :
            (elements[j].kind = "text" /\ elements[j + 1].kind = "text")
                => elements[j].style # elements[j + 1].style

\* C24 witness: two italic spans side by side came out as one italic run.
C24_Witness ==
    /\ InlineDone
    /\ inline_text = <<"*", "a", "*", "_", "a", "_">>
    /\ elements = <<InlineItem("text", <<"a", "a">>, {"italic"})>>

\* C25: the texts of the runs the inline parser returns, concatenated, are
\* the input text with the links degraded and nothing else changed: no
\* character is lost or duplicated.
C25_TextPreserved == InlineDone => RunTexts = normalized

\* The blocks with their temporary ids blanked: the kinds, the contents, the
\* languages and the order of the blocks, and the positions of the
\* placeholders.
WithoutTempIds(bs) == [j \in 1..Len(bs) |-> [bs[j] EXCEPT !.temp_id = 0]]
RanTwice == pc = "built" /\ runs = 2

\* The files of the list that exist are those that existed at the first run.
SameFiles == existing_files = earlier_files

Titled == pc = "titled"
\* the text "[id]" of the identifier the url holds
BracketedId == <<"[">> \o bv_id(video_url) \o <<"]">>
Holds(s, part) ==
    \E i \in 0..(Len(s) - Len(part)) : SubSeq(s, i + 1, i + Len(part)) = part

\* C27: for every summary, title prefix and video url, the title is at most
\* 100 characters long, and whenever the url holds a BV identifier the
\* title holds that identifier in brackets.
C27_TitleCappedWithId ==
    Titled =>
        /\ Len(title) <= title_cap
        /\ bv_id(video_url) # <<>> => Holds(title, BracketedId)

ImageBlocks == {j \in 1..Len(blocks) : blocks[j].elem = "image"}
TasksOfId(t) == {k \in 1..Len(image_tasks) : image_tasks[k].temp_id = t}
\* the paths of the call that are not existing files
MissingPaths ==
    {screenshot_paths[i] : i \in 1..Len(screenshot_paths)} \ existing_files

\* C28: in the blocks and tasks the builder holds, and so in those it
\* returns, every image placeholder carries the temporary id of exactly one
\* task and every task the id of exactly one placeholder; a path that is
\* not an existing file has neither.
C28_PlaceholdersMatchTasks ==
    PlanReady =>
        /\ \A j \in ImageBlocks : Cardinality(TasksOfId(blocks[j].temp_id)) = 1
        /\ \A k \in 1..Len(image_tasks) :
              Cardinality(PlaceholdersOf(image_tasks[k].temp_id)) = 1
        /\ Cardinality(ImageBlocks) = Len(image_tasks)
        /\ \A k \in 1..Len(image_tasks) :
              image_tasks[k].type = "local" => image_tasks[k].value \notin MissingPaths

\* The builder has returned placeholders of an image line and of an
\* assigned asset, in a call one of whose assets is not an existing file.
C28_Witness ==
    /\ Built
    /\ MissingPaths # {}
    /\ \E k \in 1..Len(image_tasks) : image_tasks[k].type = "url"
    /\ \E k \in 1..Len(image_tasks) : image_tasks[k].type = "local"
    /\ uuid_base # 0

\* The invocations whose token request has been sent and not yet answered.
AwaitingToken == {p \in Invocations : pushes[p].pc = "token_wait"}

\* C29: when push_note invocations on one instance interleave at their
\* awaits while the cached token is absent or expired, at most one token
\* request is outstanding at any time.
C29_OneTokenRequestOutstanding == Cardinality(AwaitingToken) <= 1

\* The id relations give distinct tasks distinct real ids, and the
\* confirmed placeholder ids are pairwise distinct.
InjectiveRelations ==
    \A s, t \in 1..Len(image_tasks) :
        (s # t /\ relations[image_tasks[s].temp_id] # "")
        => relations[image_tasks[s].temp_id] # relations[image_tasks[t].temp_id]
DistinctAppended ==
    \A a, b \in 1..Len(appended_image_block_ids) :
        a # b => appended_image_block_ids[a] # appended_image_block_ids[b]
TargetCalls == {c \in BindCalls : c.op \in {"upload", "patch"}}

\* C30: within one _bind_images call whose id relations are injective and
\* whose confirmed placeholder ids are pairwise distinct, no real block id
\* is named by the upload or patch requests of two different tasks.
C30_OneTaskPerBlock ==
    (InjectiveRelations /\ DistinctAppended) =>
        \A c, d \in TargetCalls : c.blk = d.blk => c.task = d.task

\* _bind_images has returned after patching one block for a task bound
\* through its id relation and another for a task bound by position, the
\* block of the first being among the confirmed ids.
C30_Witness ==
    /\ pc = "mindmap"
    /\ InjectiveRelations /\ DistinctAppended
    /\ Len(image_tasks) = 2
    /\ relations[image_tasks[1].temp_id] = "" /\ relations[image_tasks[2].temp_id] = "blkA"
    /\ appended_image_block_ids = <<"blkA", "blkB">>
    /\ \E c \in TargetCalls : c.task = 1 /\ c.op = "patch" /\ c.blk = "blkB"
    /\ \E c \in TargetCalls : c.task = 2 /\ c.op = "patch" /\ c.blk = "blkA"

====
